---- MODULE Spec2Model ----
(***************************************************************************)
(* Contribution-scoring backend: webhook deliveries, the pull-request      *)
(* lifecycle, the scoring engine, the point ledger.                        *)
(*                                                                         *)
(* Every database call of the Python code (one `await self.db...`) is one  *)
(* atomic step; a block `async with self.db.tx()` commits as one step or   *)
(* not at all.  A database call may raise (storage unavailable): that is   *)
(* the "db_error" outcome, bounded by MaxFailures.                         *)
(* Timestamps are naturals, 0 stands for None.                             *)
(***************************************************************************)
EXTENDS Integers, Sequences, FiniteSets, TLC

VARIABLES
    deliveries,   \* WebhookDelivery rows, by deliveryId
    prs,          \* PullRequest rows, by githubPrId
    txs,          \* PointTransaction rows, in creation order (id = index)
    totalPoints,  \* User.totalPoints, by user id
    reviews,      \* PRReview rows, in creation order
    auditlog,     \* AuditLog rows, in creation order
    proc,         \* the process_webhook calls in flight
    rv,           \* the ReviewService call in flight
    lp,           \* the PointLedger / AdminScoringTools calls in flight
    failures,     \* database errors raised so far
    calls,        \* process_webhook calls still to come
    now,          \* datetime.utcnow()
    nprocs,       \* number of process_webhook calls that may overlap
    args,         \* arguments of the pure function under evaluation
    ret,          \* its result
    userbadges,   \* UserBadge rows, in creation order
    badgeauditlog, \* BadgeAuditLog rows, in creation order
    bs,           \* the BadgeService calls in flight
    http,         \* the github_webhook requests in flight, and their responses
    rel,          \* the auto_release_stale_reviews task: the stale PRs it found
    isBanned,     \* User.isBanned, by user id
    snaps     \* RankSnapshot and LeaderboardSnapshot rows, and the save in flight

vars == <<deliveries, prs, txs, totalPoints, reviews, auditlog, proc, rv, lp,
          failures, calls, now, nprocs, args, ret, userbadges, badgeauditlog, bs,
          http, rel, isBanned, snaps>>

\* The badge tables and the badge calls
badgeVars == <<userbadges, badgeauditlog, bs>>

\* The API requests and the worker task
adminVars == <<isBanned, snaps>>

taskVars == <<http, rel, isBanned, snaps>>

world == <<deliveries, prs, txs, totalPoints, reviews, auditlog>>

-----------------------------------------------------------------------------
(* Bounds *)

MaxCalls == 3
MaxCallsReview == 1
MaxFailures == 1
MaxReviews == 2
MaxTx == 4
MaxRatings == 2
MaxAudit == 2
MaxRankTx == 3
MaxSnapshots == 3
MaxStreak == 4

\* Runs of the badge evaluation task
MaxTaskRuns == 2

\* Point transactions in the ledger read by the repository cap
MaxWindowTx == 2

\* Groups of reviews of one reviewer
MaxGroups == 2

\* Snapshot saves (reads of the clock by a save)
MaxSaves == 3

\* Characters of a delivery id
MaxIdLen == 2

-----------------------------------------------------------------------------
(* Fixed population *)

Users == {"u1", "u2"}
Maintainers == {"m1"}
Reviewers == {"m1", "u2"}
PrIds == {"p1"}
Procs == {1, 2}
DeliveryIds == {"D1", "D2", "D3", "D4", "D5"}

\* The payload GitHub sends under each delivery id.
Payload(d) ==
    CASE d = "D1" -> [event |-> "pull_request", action |-> "opened", pr |-> "p1",
                      author |-> "u1", merged |-> FALSE, diff |-> 150,
                      created_at |-> 1, closed_at |-> 0, merged_at |-> 0]
      [] d = "D2" -> [event |-> "pull_request", action |-> "closed", pr |-> "p1",
                      author |-> "u1", merged |-> TRUE, diff |-> 150,
                      created_at |-> 1, closed_at |-> 3, merged_at |-> 3]
      [] d = "D3" -> [event |-> "pull_request", action |-> "synchronize", pr |-> "p1",
                      author |-> "u1", merged |-> FALSE, diff |-> 5,
                      created_at |-> 1, closed_at |-> 0, merged_at |-> 0]
      [] d = "D4" -> [event |-> "pull_request", action |-> "reopened", pr |-> "p1",
                      author |-> "u1", merged |-> FALSE, diff |-> 150,
                      created_at |-> 1, closed_at |-> 0, merged_at |-> 0]
      [] d = "D6" -> [event |-> "pull_request", action |-> "labeled", pr |-> "p1",
                      author |-> "u1", merged |-> FALSE, diff |-> 150,
                      created_at |-> 1, closed_at |-> 0, merged_at |-> 0]
      [] d = "D7" -> [event |-> "pull_request", action |-> "closed", pr |-> "p1",
                      author |-> "u1", merged |-> TRUE, diff |-> 150,
                      created_at |-> 1, closed_at |-> 3, merged_at |-> 3]
      [] OTHER    -> [event |-> "pull_request", action |-> "closed", pr |-> "p1",
                      author |-> "u1", merged |-> FALSE, diff |-> 150,
                      created_at |-> 1, closed_at |-> 2, merged_at |-> 0]

-----------------------------------------------------------------------------
(* Rows *)

NoDelivery == [exists |-> FALSE, processed |-> FALSE, failureCount |-> 0,
               lastError |-> "none"]

NoPR == [exists |-> FALSE, status |-> "NONE", diffSize |-> 0, authorId |-> "none",
         score |-> 0, openedAt |-> 0, reviewedAt |-> 0, approvedAt |-> 0,
         mergedAt |-> 0, closedAt |-> 0]

IdleProc == [pc |-> "idle", delivery |-> "none", existing |-> FALSE,
             diffSize |-> 0, result |-> "none"]

\* op, pr, to, reviewer: the arguments of the latest ReviewService call
IdleRv == [pc |-> "idle", op |-> "none", pr |-> "none", to |-> "none",
           reviewer |-> "none", from |-> "none",
           result |-> [status |-> 0, from |-> "none", to |-> "none"]]

\* total, result: the sum verify_ledger_integrity computed, and what it returned
IdleLp == [pc |-> "idle", orig |-> 0, user |-> "none", pr |-> "none",
           total |-> 0, result |-> "none"]

\* op, user, badge, by: the arguments of the latest BadgeService call
IdleBs == [pc |-> "idle", op |-> "none", user |-> "none", badge |-> "none",
           by |-> "none", result |-> "none"]

\* code, status: the HTTP status code and the "status" entry of the response
\* body; verified: the outcome of the signature check
IdleHttp == [pc |-> "idle", delivery |-> "none", code |-> 0, status |-> "none",
             verified |-> "none"]

NoArgs == [fn |-> "none"]

NoRet == [done |-> FALSE]

Returned(v) == [done |-> TRUE, value |-> v]

RECURSIVE SumPoints(_, _)
\* sum(t.points for t in transactions) over the rows of user u
SumPoints(s, u) ==
    IF s = <<>> THEN 0
    ELSE (IF s[1].userId = u THEN s[1].points ELSE 0) + SumPoints(Tail(s), u)

\* The outcomes of one database call.
Outcomes == IF failures < MaxFailures THEN {"ok", "db_error"} ELSE {"ok"}

-----------------------------------------------------------------------------
(* integrations/github/webhook_handlers.py *)

\* The dispatch with 'reopened' sent to the handler of 'opened'
Dispatch_reopenedAsOpened(action) ==
    CASE action = "opened" -> "op_find"
      [] action = "synchronize" -> "sy_find"
      [] action = "reopened" -> "op_find"
      [] action = "closed" -> "cl_find"
      [] OTHER -> "mark"

\* PullRequestHandler.handle: the first step of the handler chosen by the action
Dispatch(action) ==
    CASE action = "opened" -> "op_find"
      [] action = "synchronize" -> "sy_find"
      [] action = "reopened" -> "re_find"
      [] action = "closed" -> "cl_find"
      [] OTHER -> "mark"

\* Base points for opening a PR (the literal 10 of _handle_opened)
OpenedPoints == 10

\* _handle_closed: the points of a close (50 for a merge, +20 above 100 lines)
ClosedPoints(merged, diffSize) ==
    IF merged THEN 50 + (IF diffSize > 100 THEN 20 ELSE 0) ELSE 0

NewTx(user, pr, points, reason, type, diff, orig) ==
    [userId |-> user, pullRequestId |-> pr, points |-> points, reason |-> reason,
     transactionType |-> type, diff_size |-> diff, original |-> orig]

Goto(p, label) == proc' = [proc EXCEPT ![p].pc = label]

\* A database call of call p raised: the except clause of process_webhook runs next.
Raise(p) == /\ Goto(p, "fail")
            /\ failures' = failures + 1

-----------------------------------------------------------------------------
(* integrations/github/webhook_processor.py: WebhookProcessor.process_webhook *)

\* The idempotency test left out
AlreadyProcessed_never(row) == FALSE

\* lines 40-41: `if existing: if existing.processed:`
AlreadyProcessed(row) == row.exists /\ row.processed

\* lines 38-50: look the delivery up; a processed one is answered at once
Receive(p, d) ==
    /\ p <= nprocs
    /\ proc[p].pc = "idle"
    /\ calls > 0
    /\ calls' = calls - 1
    /\ IF AlreadyProcessed(deliveries[d])
          THEN proc' = [proc EXCEPT ![p] = [IdleProc EXCEPT !.result = "already_processed"]]
          ELSE proc' = [proc EXCEPT ![p] = [pc |-> "store", delivery |-> d,
                                            existing |-> deliveries[d].exists,
                                            diffSize |-> 0, result |-> "none"]]
    /\ UNCHANGED <<world, rv, lp, failures, now, nprocs, taskVars, badgeVars, args, ret>>

\* lines 57-78: create the delivery row unless one was found, then pick the handler.
\* api/v1/webhooks.py forwards supported event types only, and every delivery here
\* is a pull_request event, so get_handler returns PullRequestHandler.
\* deliveryId is unique: a create that meets a row made meanwhile raises, outside
\* the try block, and the exception leaves process_webhook.
Store(p) ==
    /\ proc[p].pc = "store"
    /\ LET d == proc[p].delivery IN
       IF ~proc[p].existing /\ deliveries[d].exists
          THEN /\ proc' = [proc EXCEPT ![p] = [IdleProc EXCEPT !.result = "error"]]
               /\ UNCHANGED deliveries
          ELSE /\ deliveries' = IF proc[p].existing THEN deliveries
                                ELSE [deliveries EXCEPT ![d] =
                                        [NoDelivery EXCEPT !.exists = TRUE]]
               /\ Goto(p, Dispatch(Payload(d).action))
    /\ UNCHANGED <<prs, txs, totalPoints, reviews, auditlog, rv, lp, failures,
                   calls, now, nprocs, taskVars, badgeVars, args, ret>>

\* lines 115-124: _mark_processed
MarkedProcessed(d, error) ==
    [deliveries EXCEPT ![d].processed = TRUE, ![d].lastError = error]

\* lines 80-85: the handler returned; mark the delivery processed
Mark(p) ==
    /\ proc[p].pc = "mark"
    /\ \E o \in Outcomes :
         IF o = "ok"
            THEN /\ deliveries' = MarkedProcessed(proc[p].delivery, "none")
                 /\ proc' = [proc EXCEPT ![p] = [IdleProc EXCEPT !.result = "processed"]]
                 /\ UNCHANGED failures
            ELSE /\ Raise(p)
                 /\ UNCHANGED deliveries
    /\ UNCHANGED <<prs, txs, totalPoints, reviews, auditlog, rv, lp,
                   calls, now, nprocs, taskVars, badgeVars, args, ret>>

\* lines 87-113: the except clause records the failure
Fail(p) ==
    /\ proc[p].pc = "fail"
    /\ LET d == proc[p].delivery IN
       deliveries' = [deliveries EXCEPT
                        ![d].failureCount = IF proc[p].existing THEN @ + 1 ELSE 1,
                        ![d].lastError = "error"]
    /\ proc' = [proc EXCEPT ![p] = [IdleProc EXCEPT !.result = "failed"]]
    /\ UNCHANGED <<prs, txs, totalPoints, reviews, auditlog, rv, lp, failures,
                   calls, now, nprocs, taskVars, badgeVars, args, ret>>

-----------------------------------------------------------------------------
(* PullRequestHandler._handle_opened *)

\* lines 62-86: author, repository and PR lookups
OpFind(p) ==
    /\ proc[p].pc = "op_find"
    /\ LET pl == Payload(proc[p].delivery) IN
       IF pl.author \notin Users \/ prs[pl.pr].exists
          THEN Goto(p, "mark")
          ELSE Goto(p, "op_create")
    /\ UNCHANGED <<world, rv, lp, failures, calls, now, nprocs, taskVars, badgeVars, args, ret>>

\* lines 93-108: create the PR row (githubPrId is unique)
OpCreate(p) ==
    /\ proc[p].pc = "op_create"
    /\ LET pl == Payload(proc[p].delivery) IN
       \E o \in Outcomes :
         IF prs[pl.pr].exists
            THEN /\ Goto(p, "fail")
                 /\ UNCHANGED <<prs, failures>>
            ELSE IF o = "ok"
                    THEN /\ prs' = [prs EXCEPT ![pl.pr] =
                                      [NoPR EXCEPT !.exists = TRUE, !.status = "OPEN",
                                                   !.diffSize = pl.diff,
                                                   !.authorId = pl.author,
                                                   !.openedAt = pl.created_at]]
                         /\ Goto(p, "op_tx")
                         /\ UNCHANGED failures
                    ELSE /\ Raise(p)
                         /\ UNCHANGED prs
    /\ UNCHANGED <<deliveries, txs, totalPoints, reviews, auditlog, rv, lp,
                   calls, now, nprocs, taskVars, badgeVars, args, ret>>

\* lines 113-121: the PR_OPENED transaction
OpTx(p) ==
    /\ proc[p].pc = "op_tx"
    /\ LET pl == Payload(proc[p].delivery) IN
       \E o \in Outcomes :
         IF o = "ok"
            THEN /\ txs' = Append(txs, NewTx(pl.author, pl.pr, OpenedPoints, "PR_OPENED",
                                             "AWARD", pl.diff, 0))
                 /\ Goto(p, "op_bal")
                 /\ UNCHANGED failures
            ELSE /\ Raise(p)
                 /\ UNCHANGED txs
    /\ UNCHANGED <<deliveries, prs, totalPoints, reviews, auditlog, rv, lp,
                   calls, now, nprocs, taskVars, badgeVars, args, ret>>

\* lines 124-126: the author's totalPoints
OpBal(p) ==
    /\ proc[p].pc = "op_bal"
    /\ LET pl == Payload(proc[p].delivery) IN
       \E o \in Outcomes :
         IF o = "ok"
            THEN /\ totalPoints' = [totalPoints EXCEPT ![pl.author] = @ + OpenedPoints]
                 /\ Goto(p, "mark")
                 /\ UNCHANGED failures
            ELSE /\ Raise(p)
                 /\ UNCHANGED totalPoints
    /\ UNCHANGED <<deliveries, prs, txs, reviews, auditlog, rv, lp,
                   calls, now, nprocs, taskVars, badgeVars, args, ret>>

-----------------------------------------------------------------------------
(* PullRequestHandler._handle_synchronize, _handle_reopened *)

\* lines 130-135
SyFind(p) ==
    /\ proc[p].pc = "sy_find"
    /\ IF prs[Payload(proc[p].delivery).pr].exists
          THEN Goto(p, "sy_update") ELSE Goto(p, "mark")
    /\ UNCHANGED <<world, rv, lp, failures, calls, now, nprocs, taskVars, badgeVars, args, ret>>

\* lines 138-144
SyUpdate(p) ==
    /\ proc[p].pc = "sy_update"
    /\ LET pl == Payload(proc[p].delivery) IN
       \E o \in Outcomes :
         IF o = "ok"
            THEN /\ prs' = [prs EXCEPT ![pl.pr].diffSize = pl.diff,
                                       ![pl.pr].status = "OPEN"]
                 /\ Goto(p, "mark")
                 /\ UNCHANGED failures
            ELSE /\ Raise(p)
                 /\ UNCHANGED prs
    /\ UNCHANGED <<deliveries, txs, totalPoints, reviews, auditlog, rv, lp,
                   calls, now, nprocs, taskVars, badgeVars, args, ret>>

\* lines 150-155
ReFind(p) ==
    /\ proc[p].pc = "re_find"
    /\ IF prs[Payload(proc[p].delivery).pr].exists
          THEN Goto(p, "re_update") ELSE Goto(p, "mark")
    /\ UNCHANGED <<world, rv, lp, failures, calls, now, nprocs, taskVars, badgeVars, args, ret>>

\* lines 157-159
ReUpdate(p) ==
    /\ proc[p].pc = "re_update"
    /\ LET pl == Payload(proc[p].delivery) IN
       \E o \in Outcomes :
         IF o = "ok"
            THEN /\ prs' = [prs EXCEPT ![pl.pr].status = "OPEN",
                                       ![pl.pr].closedAt = 0]
                 /\ Goto(p, "mark")
                 /\ UNCHANGED failures
            ELSE /\ Raise(p)
                 /\ UNCHANGED prs
    /\ UNCHANGED <<deliveries, txs, totalPoints, reviews, auditlog, rv, lp,
                   calls, now, nprocs, taskVars, badgeVars, args, ret>>

-----------------------------------------------------------------------------
(* PullRequestHandler._handle_closed *)

\* lines 165-185: read the PR; the points are computed from the row read here
ClFind(p) ==
    /\ proc[p].pc = "cl_find"
    /\ LET pl == Payload(proc[p].delivery) IN
       IF prs[pl.pr].exists
          THEN proc' = [proc EXCEPT ![p].pc = "cl_update",
                                    ![p].diffSize = prs[pl.pr].diffSize]
          ELSE Goto(p, "mark")
    /\ UNCHANGED <<world, rv, lp, failures, calls, now, nprocs, taskVars, badgeVars, args, ret>>

\* lines 187-190: status, closedAt and mergedAt are written whatever the row holds
ClUpdate(p) ==
    /\ proc[p].pc = "cl_update"
    /\ LET pl == Payload(proc[p].delivery) IN
       \E o \in Outcomes :
         IF o = "ok"
            THEN /\ prs' = [prs EXCEPT
                              ![pl.pr].status = IF pl.merged THEN "MERGED" ELSE "CLOSED",
                              ![pl.pr].closedAt = pl.closed_at,
                              ![pl.pr].mergedAt = IF pl.merged THEN pl.merged_at ELSE 0]
                 /\ IF pl.merged /\ ClosedPoints(pl.merged, proc[p].diffSize) > 0
                       THEN Goto(p, "cl_tx") ELSE Goto(p, "mark")
                 /\ UNCHANGED failures
            ELSE /\ Raise(p)
                 /\ UNCHANGED prs
    /\ UNCHANGED <<deliveries, txs, totalPoints, reviews, auditlog, rv, lp,
                   calls, now, nprocs, taskVars, badgeVars, args, ret>>

\* lines 194-202: the PR_MERGED transaction
ClTx(p) ==
    /\ proc[p].pc = "cl_tx"
    /\ LET pl == Payload(proc[p].delivery) IN
       \E o \in Outcomes :
         IF o = "ok"
            THEN /\ txs' = Append(txs, NewTx(prs[pl.pr].authorId, pl.pr,
                                             ClosedPoints(pl.merged, proc[p].diffSize),
                                             "PR_MERGED", "AWARD", proc[p].diffSize, 0))
                 /\ Goto(p, "cl_bal")
                 /\ UNCHANGED failures
            ELSE /\ Raise(p)
                 /\ UNCHANGED txs
    /\ UNCHANGED <<deliveries, prs, totalPoints, reviews, auditlog, rv, lp,
                   calls, now, nprocs, taskVars, badgeVars, args, ret>>

\* lines 204-206: the author's totalPoints
ClBal(p) ==
    /\ proc[p].pc = "cl_bal"
    /\ LET pl == Payload(proc[p].delivery) IN
       \E o \in Outcomes :
         IF o = "ok"
            THEN /\ totalPoints' = [totalPoints EXCEPT ![prs[pl.pr].authorId] =
                                       @ + ClosedPoints(pl.merged, proc[p].diffSize)]
                 /\ Goto(p, "mark")
                 /\ UNCHANGED failures
            ELSE /\ Raise(p)
                 /\ UNCHANGED totalPoints
    /\ UNCHANGED <<deliveries, prs, txs, reviews, auditlog, rv, lp,
                   calls, now, nprocs, taskVars, badgeVars, args, ret>>

-----------------------------------------------------------------------------
(* services/pr_state_machine.py *)

\* class PRState
PRState == {"OPEN", "UNDER_REVIEW", "CHANGES_REQUESTED", "APPROVED", "MERGED", "CLOSED"}

\* PRStateMachine.VALID_TRANSITIONS
VALID_TRANSITIONS ==
    [s \in PRState |->
        CASE s = "OPEN" -> {"UNDER_REVIEW", "CLOSED"}
          [] s = "UNDER_REVIEW" -> {"CHANGES_REQUESTED", "APPROVED", "CLOSED"}
          [] s = "CHANGES_REQUESTED" -> {"OPEN", "CLOSED"}
          [] s = "APPROVED" -> {"MERGED", "CLOSED"}
          [] s = "MERGED" -> {}
          [] OTHER -> {"OPEN"}]

\* The table read with "any state -> OPEN (re-opened)" added
is_valid_transition_reopen(from_state, to_state) ==
    IF from_state \notin PRState \/ to_state \notin PRState
       THEN FALSE
       ELSE IF from_state = to_state \/ to_state = "OPEN"
               THEN TRUE
               ELSE to_state \in VALID_TRANSITIONS[from_state]

\* PRStateMachine.is_valid_transition: PRState(x) raises ValueError for a string
\* that is no member, and the except clause answers False.
is_valid_transition(from_state, to_state) ==
    IF from_state \notin PRState \/ to_state \notin PRState
       THEN FALSE
       ELSE IF from_state = to_state
               THEN TRUE
               ELSE to_state \in VALID_TRANSITIONS[from_state]

\* The map with APPROVED filed under the review timestamp
get_lifecycle_timestamp_field_shared(state) ==
    CASE state = "OPEN" -> "openedAt"
      [] state = "UNDER_REVIEW" -> "reviewedAt"
      [] state = "APPROVED" -> "reviewedAt"
      [] state = "MERGED" -> "mergedAt"
      [] state = "CLOSED" -> "closedAt"
      [] OTHER -> "None"

\* PRStateMachine.get_lifecycle_timestamp_field
get_lifecycle_timestamp_field(state) ==
    CASE state = "OPEN" -> "openedAt"
      [] state = "UNDER_REVIEW" -> "reviewedAt"
      [] state = "APPROVED" -> "approvedAt"
      [] state = "MERGED" -> "mergedAt"
      [] state = "CLOSED" -> "closedAt"
      [] OTHER -> "None"

\* The validation with its test dropped
validate_transition_accept(from_state, to_state) ==
    [is_valid |-> TRUE, from |-> "none", to |-> "none"]

\* PRStateMachine.validate_transition: (is_valid, error_message); the message
\* is built from the attempted pair.
validate_transition(from_state, to_state) ==
    IF ~is_valid_transition(from_state, to_state)
       THEN [is_valid |-> FALSE, from |-> from_state, to |-> to_state]
       ELSE [is_valid |-> TRUE, from |-> "none", to |-> "none"]

\* PRStateMachine.get_timestamp_updates applied to a row: the field of the
\* landing state is stamped with utcnow().
WithTimestampUpdates(row, to_state, t) ==
    LET f == get_lifecycle_timestamp_field(to_state) IN
    CASE f = "openedAt" -> [row EXCEPT !.openedAt = t]
      [] f = "reviewedAt" -> [row EXCEPT !.reviewedAt = t]
      [] f = "approvedAt" -> [row EXCEPT !.approvedAt = t]
      [] f = "mergedAt" -> [row EXCEPT !.mergedAt = t]
      [] f = "closedAt" -> [row EXCEPT !.closedAt = t]
      [] OTHER -> row

-----------------------------------------------------------------------------
(* services/review_service.py *)

\* The new_state values a caller may send.
StateInputs == PRState \cup {"BOGUS"}

\* The ratings a caller may send.
RatingInputs == {0, 5}

\* ReviewService._get_review_action
get_review_action(state) ==
    CASE state = "UNDER_REVIEW" -> "STARTED_REVIEW"
      [] state = "CHANGES_REQUESTED" -> "REQUESTED_CHANGES"
      [] state = "APPROVED" -> "APPROVED"
      [] OTHER -> "COMMENTED"

\* ReviewService._get_review_status
get_review_status(state) ==
    CASE state = "UNDER_REVIEW" -> "PENDING"
      [] state = "CHANGES_REQUESTED" -> "CHANGES_REQUESTED"
      [] state = "APPROVED" -> "APPROVED"
      [] OTHER -> "PENDING"

\* ReviewService._is_maintainer
is_maintainer(user) == user \in Maintainers

HttpResult(code, from, to) == [status |-> code, from |-> from, to |-> to]

\* The call record of transition_pr_state(q, to, reviewer)
TransitionCall(q, to, reviewer) ==
    [IdleRv EXCEPT !.op = "transition", !.pr = q, !.to = to, !.reviewer = reviewer]

\* transition_pr_state lines 120-142: PR lookup, permission, validation against
\* the status just read
RvValidate(q, to, reviewer) ==
    /\ rv.pc = "idle"
    /\ Len(reviews) < MaxReviews
    /\ LET row == prs[q]
           v == validate_transition(row.status, to)
           c == TransitionCall(q, to, reviewer) IN
       rv' = IF ~row.exists
                THEN [c EXCEPT !.result = HttpResult(404, "none", "none")]
             ELSE IF ~is_maintainer(reviewer)
                THEN [c EXCEPT !.result = HttpResult(403, "none", "none")]
             ELSE IF ~v.is_valid
                THEN [c EXCEPT !.result = HttpResult(400, v.from, v.to)]
             ELSE [c EXCEPT !.pc = "rv_write", !.from = row.status]
    /\ UNCHANGED <<world, proc, lp, failures, calls, now, nprocs, taskVars, badgeVars, args, ret>>

\* transition_pr_state lines 145-176: one database transaction writes the status
\* with its timestamp and the review row
RvWrite ==
    /\ rv.pc = "rv_write"
    /\ \E o \in Outcomes :
         IF o = "ok"
            THEN /\ prs' = [prs EXCEPT ![rv.pr] =
                              WithTimestampUpdates([@ EXCEPT !.status = rv.to], rv.to, now)]
                 /\ reviews' = Append(reviews,
                                  [pullRequestId |-> rv.pr, reviewerId |-> rv.reviewer,
                                   action |-> get_review_action(rv.to),
                                   status |-> get_review_status(rv.to), rating |-> 0])
                 /\ rv' = [rv EXCEPT !.pc = "idle", !.from = "none",
                                     !.result = HttpResult(200, "none", "none")]
                 /\ now' = now + 1
                 /\ UNCHANGED failures
            ELSE /\ rv' = [rv EXCEPT !.pc = "idle", !.from = "none",
                                     !.result = HttpResult(500, "none", "none")]
                 /\ failures' = failures + 1
                 /\ UNCHANGED <<prs, reviews, now>>
    /\ UNCHANGED <<deliveries, txs, totalPoints, auditlog, proc, lp, calls,
                   nprocs, taskVars, badgeVars, args, ret>>

\* add_quality_rating lines 254-295
AddQualityRating(q, reviewer, rating) ==
    /\ rv.pc = "idle"
    /\ Len(reviews) < MaxReviews
    /\ LET c == [IdleRv EXCEPT !.op = "rate", !.pr = q, !.reviewer = reviewer] IN
       IF rating < 1 \/ rating > 5
          THEN /\ rv' = [c EXCEPT !.result = HttpResult(400, "none", "none")]
               /\ UNCHANGED reviews
       ELSE IF ~prs[q].exists
          THEN /\ rv' = [c EXCEPT !.result = HttpResult(404, "none", "none")]
               /\ UNCHANGED reviews
       ELSE IF ~is_maintainer(reviewer)
          THEN /\ rv' = [c EXCEPT !.result = HttpResult(403, "none", "none")]
               /\ UNCHANGED reviews
       ELSE /\ rv' = [c EXCEPT !.result = HttpResult(200, "none", "none")]
            /\ reviews' = Append(reviews,
                             [pullRequestId |-> q, reviewerId |-> reviewer,
                              action |-> "RATED", status |-> "PENDING",
                              rating |-> rating])
    /\ UNCHANGED <<deliveries, prs, txs, totalPoints, auditlog, proc, lp, failures,
                   calls, now, nprocs, taskVars, badgeVars, args, ret>>

ReviewNext ==
    \/ \E q \in PrIds, to \in StateInputs, r \in Reviewers : RvValidate(q, to, r)
    \/ RvWrite
    \/ \E q \in PrIds, r \in Reviewers, n \in RatingInputs : AddQualityRating(q, r, n)

-----------------------------------------------------------------------------
(* Specifications *)

\* No badge awarded yet, no badge call in flight.
NoBadges ==
    /\ userbadges = <<>>
    /\ badgeauditlog = <<>>
    /\ bs = [p \in Procs |-> IdleBs]

\* No request in flight, the release task not running.
NoSnapshots == [rank |-> <<>>, board |-> <<>>, pending |-> <<>>, type |-> "none",
                snapshot_at |-> 0]

NoTasks ==
    /\ http = [p \in Procs |-> IdleHttp]
    /\ rel = {}
    /\ isBanned = [u \in Users |-> FALSE]
    /\ snaps = NoSnapshots

\* No call in flight.
InitQuiet ==
    /\ NoBadges
    /\ NoTasks
    /\ proc = [p \in Procs |-> IdleProc]
    /\ rv = IdleRv
    /\ lp = [p \in Procs |-> IdleLp]
    /\ failures = 0
    /\ now = 10
    /\ args = NoArgs
    /\ ret = NoRet

\* The empty database.
EmptyWorld ==
    /\ deliveries = [d \in DeliveryIds |-> NoDelivery]
    /\ prs = [q \in PrIds |-> NoPR]
    /\ txs = <<>>
    /\ totalPoints = [u \in Users |-> 0]
    /\ reviews = <<>>
    /\ auditlog = <<>>

Processed == [NoDelivery EXCEPT !.exists = TRUE, !.processed = TRUE]

OpenedPR == [NoPR EXCEPT !.exists = TRUE, !.status = "OPEN", !.diffSize = 150,
                         !.authorId = "u1", !.openedAt = 1]

OpenedTx == NewTx("u1", "p1", OpenedPoints, "PR_OPENED", "AWARD", 150, 0)

\* The database after D1 (p1 opened) was processed.
OpenedWorld ==
    /\ deliveries = [d \in DeliveryIds |-> IF d = "D1" THEN Processed ELSE NoDelivery]
    /\ prs = [q \in PrIds |-> OpenedPR]
    /\ txs = <<OpenedTx>>
    /\ totalPoints = [u \in Users |-> IF u = "u1" THEN OpenedPoints ELSE 0]
    /\ reviews = <<>>
    /\ auditlog = <<>>

\* Deliveries handled one at a time (a retry starts after the attempt ended).
InitSeq == EmptyWorld /\ InitQuiet /\ nprocs = 1 /\ calls = MaxCalls

\* Two process_webhook calls may overlap.
Init == EmptyWorld /\ InitQuiet /\ nprocs = 2 /\ calls = MaxCalls

\* process_webhook itself
ProcessorNext ==
    \/ \E p \in Procs, d \in DeliveryIds : Receive(p, d)
    \/ \E p \in Procs : Store(p)
    \/ \E p \in Procs : Mark(p)
    \/ \E p \in Procs : Fail(p)

\* _handle_opened
OpenedNext ==
    \/ \E p \in Procs : OpFind(p)
    \/ \E p \in Procs : OpCreate(p)
    \/ \E p \in Procs : OpTx(p)
    \/ \E p \in Procs : OpBal(p)

\* _handle_synchronize, _handle_reopened, _handle_closed
LifecycleNext ==
    \/ \E p \in Procs : SyFind(p)
    \/ \E p \in Procs : SyUpdate(p)
    \/ \E p \in Procs : ReFind(p)
    \/ \E p \in Procs : ReUpdate(p)
    \/ \E p \in Procs : ClFind(p)
    \/ \E p \in Procs : ClUpdate(p)
    \/ \E p \in Procs : ClTx(p)
    \/ \E p \in Procs : ClBal(p)

WebhookNext == ProcessorNext \/ OpenedNext \/ LifecycleNext

Next == WebhookNext

\* Overlapping deliveries.
Spec == Init /\ [][Next]_vars

\* One delivery at a time, retries included.
SpecSeq == InitSeq /\ [][Next]_vars

\* D1 is processed in InitReview, so a further D1 is answered "already_processed"
\* and _handle_opened does not run again.
NextReview == ProcessorNext \/ LifecycleNext \/ ReviewNext

\* Maintainers start reviewing p1 once it is open.
InitReview ==
    /\ OpenedWorld
    /\ InitQuiet
    /\ nprocs = 1
    /\ calls = MaxCallsReview

\* Maintainers reviewing while further deliveries arrive, one at a time.
SpecReview == InitReview /\ [][NextReview]_vars

-----------------------------------------------------------------------------
(* services/point_ledger.py, services/admin_scoring_tools.py *)

\* The points a caller may award.
PointInputs == {25, -5}

\* award_points lines 67-69: totalPoints += points
Incremented(balances, user_id, points) ==
    [balances EXCEPT ![user_id] = @ + points]

\* The decrement written as an increment
Decremented_increment(balances, original) ==
    [balances EXCEPT ![original.userId] = @ + original.points]

\* reverse_transaction lines 133-136: totalPoints -= original.points
Decremented(balances, original) ==
    [balances EXCEPT ![original.userId] = @ - original.points]

\* award_points lines 53-79: the transaction row and the balance, in one
\* database transaction
AwardPoints(u, q, points, reason, type, orig) ==
    /\ Len(txs) < MaxTx
    /\ \E o \in Outcomes :
         IF o = "ok"
            THEN /\ txs' = Append(txs, NewTx(u, q, points, reason, type, 0, orig))
                 /\ totalPoints' = Incremented(totalPoints, u, points)
                 /\ UNCHANGED failures
            ELSE /\ failures' = failures + 1
                 /\ UNCHANGED <<txs, totalPoints>>

\* PointLedger.award_points
award_points(u, q, points) ==
    /\ AwardPoints(u, q, points, "MANUAL", "AWARD", 0)
    /\ UNCHANGED <<deliveries, prs, reviews, auditlog, proc, rv, lp, calls, now,
                   nprocs, taskVars, badgeVars, args, ret>>

\* create_reversal lines 103-109: read the original transaction
CrFind(p, user_id, q, original_transaction_id) ==
    /\ lp[p].pc = "idle"
    /\ Len(txs) < MaxTx
    /\ IF original_transaction_id \in 1..Len(txs)
          THEN lp' = [lp EXCEPT ![p] = [IdleLp EXCEPT !.pc = "cr_award",
                                                      !.orig = original_transaction_id,
                                                      !.user = user_id, !.pr = q]]
          ELSE lp' = lp
    /\ UNCHANGED <<world, proc, rv, failures, calls, now, nprocs, taskVars, badgeVars, args, ret>>

\* create_reversal lines 111-121: award the negated points to user_id
CrAward(p) ==
    /\ lp[p].pc = "cr_award"
    /\ AwardPoints(lp[p].user, lp[p].pr, -txs[lp[p].orig].points, "REVERSAL",
                   "REVERSAL", lp[p].orig)
    /\ lp' = [lp EXCEPT ![p] = IdleLp]
    /\ UNCHANGED <<deliveries, prs, reviews, auditlog, proc, rv, calls, now,
                   nprocs, taskVars, badgeVars, args, ret>>

\* reverse_transaction lines 110-113: read the original transaction
RtFind(p, transaction_id) ==
    /\ lp[p].pc = "idle"
    /\ Len(txs) < MaxTx
    /\ IF transaction_id \in 1..Len(txs)
          THEN lp' = [lp EXCEPT ![p] = [IdleLp EXCEPT !.pc = "rt_commit",
                                                      !.orig = transaction_id,
                                                      !.user = "admin"]]
          ELSE lp' = lp
    /\ UNCHANGED <<world, proc, rv, failures, calls, now, nprocs, taskVars, badgeVars, args, ret>>

\* reverse_transaction cancelling the original row in place instead of
\* creating a reversal row
RtCommit_rewritesOriginal(p) ==
    /\ lp[p].pc = "rt_commit"
    /\ LET original == txs[lp[p].orig] IN
       /\ txs' = [txs EXCEPT ![lp[p].orig].points = 0]
       /\ totalPoints' = Decremented(totalPoints, original)
       /\ auditlog' = Append(auditlog, [userId |-> "admin",
                                        action |-> "REVERSE_TRANSACTION",
                                        targetId |-> lp[p].orig])
    /\ lp' = [lp EXCEPT ![p] = IdleLp]
    /\ UNCHANGED <<deliveries, prs, reviews, proc, rv, failures, calls, now, nprocs,
                   taskVars, badgeVars, args, ret>>

\* reverse_transaction lines 116-150: reversal row, balance and audit row, in
\* one database transaction
RtCommit(p) ==
    /\ lp[p].pc = "rt_commit"
    /\ LET original == txs[lp[p].orig] IN
       \E o \in Outcomes :
         IF o = "ok"
            THEN /\ txs' = Append(txs, NewTx(original.userId, original.pullRequestId,
                                             -original.points, "REVERSAL", "REVERSAL",
                                             0, lp[p].orig))
                 /\ totalPoints' = Decremented(totalPoints, original)
                 /\ auditlog' = Append(auditlog, [userId |-> "admin",
                                                  action |-> "REVERSE_TRANSACTION",
                                                  targetId |-> lp[p].orig])
                 /\ UNCHANGED failures
            ELSE /\ failures' = failures + 1
                 /\ UNCHANGED <<txs, totalPoints, auditlog>>
    /\ lp' = [lp EXCEPT ![p] = IdleLp]
    /\ UNCHANGED <<deliveries, prs, reviews, proc, rv, calls, now, nprocs, taskVars, badgeVars, args, ret>>

\* The user ids verify_ledger_integrity may be asked about; "ghost" has no row.
VerifyInputs == Users \cup {"ghost"}

\* verify_ledger_integrity lines 181-184: read the user's transactions and sum them
VfSum(p, user_id) ==
    /\ lp[p].pc = "idle"
    /\ lp' = [lp EXCEPT ![p] = [IdleLp EXCEPT !.pc = "vf_compare", !.user = user_id,
                                              !.total = SumPoints(txs, user_id)]]
    /\ UNCHANGED <<world, proc, rv, failures, calls, now, nprocs, taskVars, badgeVars, args, ret>>

\* verify_ledger_integrity lines 187-204: read the user row and compare
VfCompare(p) ==
    /\ lp[p].pc = "vf_compare"
    /\ LET u == lp[p].user
           is_consistent == u \in Users /\ lp[p].total = totalPoints[u] IN
       lp' = [lp EXCEPT ![p] = [IdleLp EXCEPT !.user = u,
                                  !.result = IF is_consistent THEN "true" ELSE "false"]]
    /\ UNCHANGED <<world, proc, rv, failures, calls, now, nprocs, taskVars, badgeVars, args, ret>>

\* Ledger calls start after p1 was opened; no delivery arrives meanwhile.
InitLedger ==
    /\ OpenedWorld
    /\ InitQuiet
    /\ nprocs = 0
    /\ calls = 0

NextLedger ==
    \/ \E u \in Users, q \in PrIds, n \in PointInputs : award_points(u, q, n)
    \/ \E p \in Procs, u \in Users, q \in PrIds, i \in 1..MaxTx : CrFind(p, u, q, i)
    \/ \E p \in Procs : CrAward(p)
    \/ \E p \in Procs, i \in 1..MaxTx : RtFind(p, i)
    \/ \E p \in Procs : RtCommit(p)

\* Ledger and admin calls, overlapping.
SpecLedger == InitLedger /\ [][NextLedger]_vars

\* The ledger when verification starts: p1 was opened, and the balance change of
\* its award either went through or failed (the handler writes the two apart).
InitVerify ==
    /\ deliveries = [d \in DeliveryIds |-> IF d = "D1" THEN Processed ELSE NoDelivery]
    /\ prs = [q \in PrIds |-> OpenedPR]
    /\ txs = <<OpenedTx>>
    /\ totalPoints \in {[u \in Users |-> IF u = "u1" THEN n ELSE 0] :
                            n \in {OpenedPoints, 0}}
    /\ reviews = <<>>
    /\ auditlog = <<>>
    /\ InitQuiet
    /\ nprocs = 0
    /\ calls = 0

NextVerify ==
    \/ \E u \in Users, q \in PrIds, n \in PointInputs : award_points(u, q, n)
    \/ \E p \in Procs, u \in VerifyInputs : VfSum(p, u)
    \/ \E p \in Procs : VfCompare(p)

\* Integrity checks running while points are awarded.
SpecVerify == InitVerify /\ [][NextVerify]_vars

-----------------------------------------------------------------------------
(* services/badge_service.py *)

BadgeIds == {"b1", "b2", "b3", "b4"}

\* The badge table. b1 is active with a first_pr criterion; b2 is inactive
\* (award_badge raises ValueError, evaluation never reads it); b3 is the
\* seeded badge "First Contribution", criteria {"type": "PR_COUNT",
\* "threshold": 1}; b4 is active with a pr_count criterion that carries no
\* threshold.
Badge(b) ==
    CASE b = "b1" -> [isActive |-> TRUE, type |-> "first_pr", hasThreshold |-> FALSE,
                      threshold |-> 0]
      [] b = "b2" -> [isActive |-> FALSE, type |-> "pr_count", hasThreshold |-> TRUE,
                      threshold |-> 1]
      [] b = "b3" -> [isActive |-> TRUE, type |-> "PR_COUNT", hasThreshold |-> TRUE,
                      threshold |-> 1]
      [] OTHER    -> [isActive |-> TRUE, type |-> "pr_count", hasThreshold |-> FALSE,
                      threshold |-> 0]

\* badge.find_many(where={"isActive": True})
ActiveBadges == {b \in BadgeIds : Badge(b).isActive}

BadgeInputs == {"b1", "b2"}

\* awarded_by: None for an automatic award, an admin's id for a manual one
AwarderInputs == {"None", "admin"}

\* The UserBadge rows of the pair (user_id, badge_id)
RowsOf(rows, user_id, badge_id) ==
    {i \in 1..Len(rows) : rows[i].userId = user_id /\ rows[i].badgeId = badge_id}

\* userbadge.find_unique by the unique key userId_badgeId never answers
has_badge_never(user_id, badge_id) == FALSE

\* BadgeService.has_badge
has_badge(user_id, badge_id) == RowsOf(userbadges, user_id, badge_id) # {}

\* The pair (userId, badgeId) carrying no unique key
UniqueViolation_none(rows, user_id, badge_id) == FALSE

\* userId_badgeId is a unique key of UserBadge: a create that meets a row of
\* the same pair raises.
UniqueViolation(rows, user_id, badge_id) == RowsOf(rows, user_id, badge_id) # {}

BsReturn(p, result) == bs' = [bs EXCEPT ![p].pc = "idle", ![p].result = result]

\* award_badge lines 117-132: has_badge, then the badge lookup
AbCheck(p, user_id, badge_id, awarded_by) ==
    /\ bs[p].pc = "idle"
    /\ Len(badgeauditlog) < MaxAudit
    /\ LET c == [IdleBs EXCEPT !.op = "award", !.user = user_id, !.badge = badge_id,
                               !.by = awarded_by] IN
       bs' = [bs EXCEPT ![p] =
                IF has_badge(user_id, badge_id) THEN [c EXCEPT !.result = "None"]
                ELSE IF badge_id \notin ActiveBadges
                        THEN [c EXCEPT !.result = "ValueError"]
                ELSE [c EXCEPT !.pc = "ab_create"]]
    /\ UNCHANGED <<world, proc, rv, lp, failures, calls, now, nprocs, taskVars, args, ret,
                   userbadges, badgeauditlog>>

\* award_badge lines 137-146: create the UserBadge row
AbCreate(p) ==
    /\ bs[p].pc = "ab_create"
    /\ \E o \in Outcomes :
         IF UniqueViolation(userbadges, bs[p].user, bs[p].badge)
            THEN /\ BsReturn(p, "error")
                 /\ UNCHANGED <<userbadges, failures>>
            ELSE IF o = "ok"
                    THEN /\ userbadges' = Append(userbadges,
                                             [userId |-> bs[p].user, badgeId |-> bs[p].badge,
                                              awardedBy |-> bs[p].by,
                                              isManual |-> bs[p].by # "None"])
                         /\ bs' = [bs EXCEPT ![p].pc = "ab_audit"]
                         /\ UNCHANGED failures
                    ELSE /\ BsReturn(p, "error")
                         /\ failures' = failures + 1
                         /\ UNCHANGED userbadges
    /\ UNCHANGED <<world, proc, rv, lp, calls, now, nprocs, taskVars, args, ret, badgeauditlog>>

\* A BadgeAuditLog row
AuditRow(c, action) ==
    [userId |-> c.user, badgeId |-> c.badge, action |-> action, awardedBy |-> c.by,
     isManual |-> (action = "REVOKED" \/ c.by # "None")]

\* award_badge lines 149-171: the AWARDED audit row
AbAudit(p) ==
    /\ bs[p].pc = "ab_audit"
    /\ \E o \in Outcomes :
         IF o = "ok"
            THEN /\ badgeauditlog' = Append(badgeauditlog, AuditRow(bs[p], "AWARDED"))
                 /\ BsReturn(p, "awarded")
                 /\ UNCHANGED failures
            ELSE /\ BsReturn(p, "error")
                 /\ failures' = failures + 1
                 /\ UNCHANGED badgeauditlog
    /\ UNCHANGED <<world, proc, rv, lp, calls, now, nprocs, taskVars, args, ret, userbadges>>

\* revoke_badge lines 192-203: look the award up
RbFind(p, user_id, badge_id) ==
    /\ bs[p].pc = "idle"
    /\ Len(badgeauditlog) < MaxAudit
    /\ LET c == [IdleBs EXCEPT !.op = "revoke", !.user = user_id, !.badge = badge_id,
                               !.by = "admin"] IN
       bs' = [bs EXCEPT ![p] =
                IF RowsOf(userbadges, user_id, badge_id) = {}
                   THEN [c EXCEPT !.result = "False"]
                   ELSE [c EXCEPT !.pc = "rb_delete"]]
    /\ UNCHANGED <<world, proc, rv, lp, failures, calls, now, nprocs, taskVars, args, ret,
                   userbadges, badgeauditlog>>

\* revoke_badge lines 206-208: delete the row; deleting a row that is gone raises
RbDelete(p) ==
    /\ bs[p].pc = "rb_delete"
    /\ LET gone == RowsOf(userbadges, bs[p].user, bs[p].badge) IN
       \E o \in Outcomes :
         IF gone = {}
            THEN /\ BsReturn(p, "error")
                 /\ UNCHANGED <<userbadges, failures>>
            ELSE IF o = "ok"
                    THEN /\ userbadges' = SelectSeq(userbadges,
                                LAMBDA r : ~(r.userId = bs[p].user /\ r.badgeId = bs[p].badge))
                         /\ bs' = [bs EXCEPT ![p].pc = "rb_audit"]
                         /\ UNCHANGED failures
                    ELSE /\ BsReturn(p, "error")
                         /\ failures' = failures + 1
                         /\ UNCHANGED userbadges
    /\ UNCHANGED <<world, proc, rv, lp, calls, now, nprocs, taskVars, args, ret, badgeauditlog>>

\* revoke_badge lines 211-232: the REVOKED audit row
RbAudit(p) ==
    /\ bs[p].pc = "rb_audit"
    /\ \E o \in Outcomes :
         IF o = "ok"
            THEN /\ badgeauditlog' = Append(badgeauditlog, AuditRow(bs[p], "REVOKED"))
                 /\ BsReturn(p, "True")
                 /\ UNCHANGED failures
            ELSE /\ BsReturn(p, "error")
                 /\ failures' = failures + 1
                 /\ UNCHANGED badgeauditlog
    /\ UNCHANGED <<world, proc, rv, lp, calls, now, nprocs, taskVars, args, ret, userbadges>>

InitBadge ==
    /\ EmptyWorld
    /\ InitQuiet
    /\ nprocs = 0
    /\ calls = 0

NextBadge ==
    \/ \E p \in Procs, u \in Users, b \in BadgeInputs, a \in AwarderInputs :
          AbCheck(p, u, b, a)
    \/ \E p \in Procs : AbCreate(p)
    \/ \E p \in Procs : AbAudit(p)
    \/ \E p \in Procs, u \in Users, b \in BadgeInputs : RbFind(p, u, b)
    \/ \E p \in Procs : RbDelete(p)
    \/ \E p \in Procs : RbAudit(p)

\* Badge awards and revocations, automatic and manual, overlapping.
SpecBadge == InitBadge /\ [][NextBadge]_vars

-----------------------------------------------------------------------------
(* services/advanced_scoring_engine.py, services/gaming_detector.py *)
(* A multiplier is kept in tenths (1.5 is 15); the product of the three     *)
(* multipliers is therefore in thousandths.                                 *)

Scale == 1000

\* _get_default_rules
DefaultRules ==
    [version |-> 1,
     base_points |-> [opened |-> 10, merged |-> 50, closed |-> 0],
     review_rating |-> <<<<5, 15>>, <<4, 12>>, <<3, 10>>, <<2, 8>>, <<1, 5>>>>,
     spam |-> 20]

\* A project's own rule versions, as scoring_rules may carry them.
ProjectRules ==
    {[version |-> 2,
      base_points |-> [opened |-> 7, merged |-> 33, closed |-> -3],
      review_rating |-> <<<<5, 15>>, <<4, 12>>, <<3, 10>>, <<2, 8>>, <<1, 5>>>>,
      spam |-> 3],
     [version |-> 3,
      base_points |-> [merged |-> 15],
      review_rating |-> <<<<5, 25>>, <<1, 3>>>>,
      spam |-> 0]}

\* scoring_rules = None
NoRules == [version |-> 0, base_points |-> [opened |-> 0], review_rating |-> <<>>,
            spam |-> 0]

RuleInputs == {NoRules} \cup ProjectRules

EventInputs == {"opened", "merged", "closed", "synchronize"}

\* pr.diffSize = None
NoDiff == -1

DiffInputs == {NoDiff, 0, 5, 9, 10, 150}

\* ratings of the reviews of a PR, 0 for a review row without rating
RatingSeqs == UNION {[1..n -> {0, 1, 4, 5}] : n \in 0..MaxRatings}

\* Python truthiness of pr.diffSize
Truthy(d) == d # NoDiff /\ d # 0

\* int(n / d) for d > 0: truncation toward zero
Trunc(n, d) == IF n >= 0 THEN n \div d ELSE -((-n) \div d)

Abs(n) == IF n >= 0 THEN n ELSE -n

Max(a, b) == IF a >= b THEN a ELSE b

RECURSIVE SumSeq(_)
SumSeq(q) == IF q = <<>> THEN 0 ELSE q[1] + SumSeq(Tail(q))

\* _get_base_score: rules.base_points.get(event, default_points.get(event, 0))
get_base_score(event, rules) ==
    LET default_points == [opened |-> 10, merged |-> 50, closed |-> 0] IN
    IF event \in DOMAIN rules.base_points THEN rules.base_points[event]
    ELSE IF event \in DOMAIN default_points THEN default_points[event]
    ELSE 0

\* _get_review_rating_multiplier: min(keys, key=|x - avg|), the first of the
\* nearest keys in table order; avg = total / count
get_review_rating_multiplier(total, count, rules) ==
    LET t == rules.review_rating
        dist(i) == Abs(t[i][1] * count - total)
        best == CHOOSE i \in 1..Len(t) :
                    /\ \A j \in 1..Len(t) : dist(i) <= dist(j)
                    /\ \A j \in 1..(i - 1) : dist(j) > dist(i)
    IN t[best][2]

\* _calculate_multipliers: all-zero stands for the ZeroDivisionError of a PR
\* whose reviews all lack a rating
calculate_multipliers(ratings, rules) ==
    LET rated == SelectSeq(ratings, LAMBDA r : r # 0) IN
    IF ratings = <<>>
       THEN [review_rating |-> 10, test_coverage |-> 10, documentation |-> 10]
       ELSE IF rated = <<>>
               THEN [review_rating |-> 0, test_coverage |-> 0, documentation |-> 0]
               ELSE [review_rating |->
                        get_review_rating_multiplier(SumSeq(rated), Len(rated), rules),
                     test_coverage |-> 10, documentation |-> 10]

\* _calculate_penalties
calculate_penalties(diffSize, rules) ==
    [spam |-> IF Truthy(diffSize) /\ diffSize < 10 THEN rules.spam ELSE 0,
     low_value |-> 0,
     violation |-> 0]

\* The penalties taken off the base before the multipliers apply
FinalScore_penaltyFirst(base_score, multipliers, penalties) ==
    LET product == multipliers.review_rating * multipliers.test_coverage
                       * multipliers.documentation
        penalty_sum == penalties.spam + penalties.low_value + penalties.violation
    IN Max(0, Trunc((base_score - penalty_sum) * product, Scale))

\* calculate_score lines 72-77: max(0, int(base * product - penalty_sum))
FinalScore(base_score, multipliers, penalties) ==
    LET product == multipliers.review_rating * multipliers.test_coverage
                       * multipliers.documentation
        penalty_sum == penalties.spam + penalties.low_value + penalties.violation
    IN Max(0, Trunc(base_score * product - penalty_sum * Scale, Scale))

\* calculate_score lines 60-97
calculate_score(diffSize, ratings, event, scoring_rules) ==
    LET rules == IF scoring_rules = NoRules THEN DefaultRules ELSE scoring_rules
        base_score == get_base_score(event, rules)
        multipliers == calculate_multipliers(ratings, rules)
        penalties == calculate_penalties(diffSize, rules)
    IN IF multipliers.test_coverage = 0
          THEN [ok |-> FALSE]
          ELSE [ok |-> TRUE, base_score |-> base_score, multipliers |-> multipliers,
                penalties |-> penalties,
                final_score |-> FinalScore(base_score, multipliers, penalties),
                event |-> event, rules_version |-> rules.version]

\* GamingDetector.detect_spam_pr lines 46-54
detect_spam_pr(diffSize) ==
    [is_spam |-> Truthy(diffSize) /\ diffSize < 10]

InitScore ==
    /\ EmptyWorld
    /\ NoBadges
    /\ NoTasks
    /\ proc = [p \in Procs |-> IdleProc]
    /\ rv = IdleRv
    /\ lp = [p \in Procs |-> IdleLp]
    /\ failures = 0
    /\ now = 10
    /\ nprocs = 0
    /\ calls = 0
    /\ args \in [fn : {"calculate_score"}, diffSize : DiffInputs, ratings : RatingSeqs,
                 event : EventInputs, rules : RuleInputs]
    /\ ret = NoRet

CalculateScore ==
    /\ args.fn = "calculate_score"
    /\ ~ret.done
    /\ ret' = Returned([score |-> calculate_score(args.diffSize, args.ratings,
                                                  args.event, args.rules),
                        spam_check |-> detect_spam_pr(args.diffSize)])
    /\ UNCHANGED <<world, proc, rv, lp, failures, calls, now, nprocs, taskVars, badgeVars, args>>

NextScore == CalculateScore

\* The scoring engine and the spam check applied to every PR and rule set.
SpecScore == InitScore /\ [][NextScore]_vars

-----------------------------------------------------------------------------
(* services/rank_calculator.py *)

RankUsers == {"u1", "u2", "u3"}

\* User.createdAt of each user
CreatedAtInputs == [RankUsers -> {1, 2}]

\* A PointTransaction row as a rank query returns it; createdAt is the time of
\* the contribution.
RankTxInputs == [userId : RankUsers, points : {5, 10}, createdAt : {1, 2}]

\* The rows of a query, in the order the store returns them
RankTxSeqs == UNION {[1..n -> RankTxInputs] : n \in 0..MaxRankTx}

\* The user rows of the global query (not deleted, not banned), in the order
\* the store holds them
RankUserSeqs ==
    {q \in UNION {[1..n -> RankUsers] : n \in 0..Cardinality(RankUsers)} :
        \A i, j \in 1..Len(q) : i # j => q[i] # q[j]}

\* The position of user_id in the entries, 0 when it has none
IndexOf(entries, user_id) ==
    IF \E i \in 1..Len(entries) : entries[i].user_id = user_id
       THEN CHOOSE i \in 1..Len(entries) : entries[i].user_id = user_id
       ELSE 0

RECURSIVE Aggregate(_, _, _)
\* user_points and user_created_at filled in the order the transactions come
\* (a dict keeps insertion order)
Aggregate(entries, transactions, created) ==
    IF transactions = <<>> THEN entries
    ELSE LET t == Head(transactions)
             i == IndexOf(entries, t.userId) IN
         Aggregate(IF i = 0
                      THEN Append(entries, [user_id |-> t.userId, points |-> t.points,
                                            created_at |-> created[t.userId]])
                      ELSE [entries EXCEPT ![i].points = @ + t.points],
                   Tail(transactions), created)

\* key = (-points, created_at), compared as Python compares tuples
KeyLess(a, b) ==
    \/ a.points > b.points
    \/ a.points = b.points /\ a.created_at < b.created_at

RECURSIVE Insert(_, _)
Insert(e, sorted) ==
    IF sorted = <<>> THEN <<e>>
    ELSE IF KeyLess(e, Head(sorted)) THEN <<e>> \o sorted
    ELSE <<Head(sorted)>> \o Insert(e, Tail(sorted))

RECURSIVE SortedInto(_, _)
SortedInto(sorted, entries) ==
    IF entries = <<>> THEN sorted
    ELSE SortedInto(Insert(Head(entries), sorted), Tail(entries))

\* sorted(..., key=...) and ORDER BY: entries of equal key keep the order
\* they came in
SortedUsers(entries) == SortedInto(<<>>, entries)

\* Ranks where entries of equal points share a rank
Ranks_shared(sorted) ==
    [i \in 1..Len(sorted) |->
        [user_id |-> sorted[i].user_id,
         rank |-> 1 + Cardinality({j \in 1..Len(sorted) :
                                     sorted[j].points > sorted[i].points}),
         points |-> sorted[i].points]]

\* current_rank counts up from 1 along the sorted entries
Ranks(sorted) ==
    [i \in 1..Len(sorted) |->
        [user_id |-> sorted[i].user_id, rank |-> i, points |-> sorted[i].points]]

\* calculate_global_ranks
calculate_global_ranks(users, points, created) ==
    Ranks(SortedUsers([i \in 1..Len(users) |->
                          [user_id |-> users[i], points |-> points[users[i]],
                           created_at |-> created[users[i]]]]))

\* calculate_monthly_ranks, calculate_project_ranks: what follows the query
calculate_period_ranks(transactions, created) ==
    Ranks(SortedUsers(Aggregate(<<>>, transactions, created)))

InitRank ==
    /\ EmptyWorld
    /\ NoBadges
    /\ NoTasks
    /\ proc = [p \in Procs |-> IdleProc]
    /\ rv = IdleRv
    /\ lp = [p \in Procs |-> IdleLp]
    /\ failures = 0
    /\ now = 10
    /\ nprocs = 0
    /\ calls = 0
    /\ \/ args \in [fn : {"calculate_monthly_ranks", "calculate_project_ranks"},
                     transactions : RankTxSeqs, created : CreatedAtInputs]
       \/ args \in [fn : {"calculate_global_ranks"}, users : RankUserSeqs,
                     points : [RankUsers -> {5, 10}], created : CreatedAtInputs]
    /\ ret = NoRet

CalculateGlobalRanks ==
    /\ args.fn = "calculate_global_ranks"
    /\ ~ret.done
    /\ ret' = Returned(calculate_global_ranks(args.users, args.points, args.created))
    /\ UNCHANGED <<world, proc, rv, lp, failures, calls, now, nprocs, taskVars, badgeVars, args>>

CalculateMonthlyRanks ==
    /\ args.fn = "calculate_monthly_ranks"
    /\ ~ret.done
    /\ ret' = Returned(calculate_period_ranks(args.transactions, args.created))
    /\ UNCHANGED <<world, proc, rv, lp, failures, calls, now, nprocs, taskVars, badgeVars, args>>

CalculateProjectRanks ==
    /\ args.fn = "calculate_project_ranks"
    /\ ~ret.done
    /\ ret' = Returned(calculate_period_ranks(args.transactions, args.created))
    /\ UNCHANGED <<world, proc, rv, lp, failures, calls, now, nprocs, taskVars, badgeVars, args>>

NextRank == CalculateGlobalRanks \/ CalculateMonthlyRanks \/ CalculateProjectRanks

\* The three rank calculations applied to every query result.
SpecRank == InitRank /\ [][NextRank]_vars

-----------------------------------------------------------------------------
(* services/dashboard_service.py: DashboardService.get_user_rank_info *)

\* The times a GLOBAL leaderboard snapshot may have been saved at
SnapshotTimes == 1..MaxSnapshots

\* The user's rank in the snapshot of each time; 0 where the user has no row
\* (no snapshot was saved then, or the user was not ranked in it).
SnapshotInputs ==
    [taken : SUBSET SnapshotTimes, rank : [SnapshotTimes -> 0..3]]

\* An Optional[int]
Some(n) == [some |-> TRUE, value |-> n]

None == [some |-> FALSE, value |-> 0]

\* The times of the user's own GLOBAL rows
RowTimes(snapshots) ==
    {t \in snapshots.taken : snapshots.rank[t] # 0}

\* find_first(order snapshotAt desc): the newest of the times, 0 when there is none
Newest(times) ==
    IF times = {} THEN 0 ELSE CHOOSE t \in times : \A x \in times : x <= t

\* lines 325-329: rank_change = 0, replaced when there is a previous row
RankChange(snapshots, latest, previous) ==
    IF previous # 0
       THEN Some(snapshots.rank[previous] - snapshots.rank[latest])
       ELSE Some(0)

\* get_user_rank_info lines 307-329 and 362-365: rank, previous_rank and
\* rank_change of the returned dictionary (the percentile and the progress
\* figures are computed from the latest row and the user row only)
get_user_rank_info(snapshots) ==
    LET latest == Newest(RowTimes(snapshots))
        previous == Newest({t \in RowTimes(snapshots) : t < latest})
    IN IF latest = 0
          THEN [found |-> FALSE]
          ELSE [found |-> TRUE,
                rank |-> snapshots.rank[latest],
                previous_rank |-> IF previous # 0 THEN Some(snapshots.rank[previous])
                                  ELSE None,
                rank_change |-> RankChange(snapshots, latest, previous),
                last_updated |-> latest]

InitRankInfo ==
    /\ EmptyWorld
    /\ NoBadges
    /\ NoTasks
    /\ proc = [p \in Procs |-> IdleProc]
    /\ rv = IdleRv
    /\ lp = [p \in Procs |-> IdleLp]
    /\ failures = 0
    /\ now = 10
    /\ nprocs = 0
    /\ calls = 0
    /\ args \in [fn : {"get_user_rank_info"}, snapshots : SnapshotInputs]
    /\ ret = NoRet

GetUserRankInfo ==
    /\ args.fn = "get_user_rank_info"
    /\ ~ret.done
    /\ ret' = Returned(get_user_rank_info(args.snapshots))
    /\ UNCHANGED <<world, proc, rv, lp, failures, calls, now, nprocs, taskVars, badgeVars, args>>

NextRankInfo == GetUserRankInfo

\* get_user_rank_info applied to every history of snapshots.
SpecRankInfo == InitRankInfo /\ [][NextRankInfo]_vars

-----------------------------------------------------------------------------
(* The state machine as a function *)

TransitionInputs == PRState \cup {"BOGUS", "open"}

InitSM ==
    /\ EmptyWorld
    /\ NoBadges
    /\ NoTasks
    /\ proc = [p \in Procs |-> IdleProc]
    /\ rv = IdleRv
    /\ lp = [p \in Procs |-> IdleLp]
    /\ failures = 0
    /\ now = 10
    /\ nprocs = 0
    /\ calls = 0
    /\ args \in [fn : {"is_valid_transition"}, from : TransitionInputs,
                 to : TransitionInputs]
    /\ ret = NoRet

IsValidTransition ==
    /\ args.fn = "is_valid_transition"
    /\ ~ret.done
    /\ ret' = Returned(is_valid_transition(args.from, args.to))
    /\ UNCHANGED <<world, proc, rv, lp, failures, calls, now, nprocs, taskVars, badgeVars, args>>

NextSM == IsValidTransition

\* is_valid_transition applied to every pair of strings.
SpecSM == InitSM /\ [][NextSM]_vars

-----------------------------------------------------------------------------
(* integrations/github/webhook_security.py, api/v1/webhooks.py *)

\* settings.GITHUB_WEBHOOK_SECRET
Secret == "secret"

\* hmac.new(key, msg, hashlib.sha256).hexdigest(): a string of hex digits that
\* stands for the pair it was computed from (no collisions).
HmacSha256(key, msg) == [ascii |-> TRUE, key |-> key, msg |-> msg]

\* The raw body of the request that carries delivery d; json: request.json() parses it
Body(d, json) == [delivery |-> d, json |-> json]

\* The X-Hub-Signature-256 values a sender may put on body b: empty, another
\* scheme, the right digest, a digest under another key, the digest of another
\* body, and characters outside ASCII (a header value is decoded as latin-1).
SignatureInputs(b) ==
    {[prefix |-> "", digest |-> HmacSha256("none", "none")],
     [prefix |-> "sha1=", digest |-> HmacSha256(Secret, b)],
     [prefix |-> "sha256=", digest |-> HmacSha256(Secret, b)],
     [prefix |-> "sha256=", digest |-> HmacSha256("guess", b)],
     [prefix |-> "sha256=", digest |-> HmacSha256(Secret, Body("D0", TRUE))],
     [prefix |-> "sha256=", digest |-> [ascii |-> FALSE, key |-> "none", msg |-> "none"]]}

\* The X-GitHub-Event values a sender may put on a request
EventTypeInputs == {"pull_request", "ping"}

\* The deliveries sent to the endpoint: D6 carries an action no handler knows
ApiDeliveryIds == DeliveryIds \cup {"D6"}

\* verify_webhook_signature: "ok" for `return True`, else the exception raised.
\* hmac.compare_digest raises TypeError for a str with a non-ASCII character.
verify_webhook_signature(payload, signature_header) ==
    IF signature_header.prefix = "" THEN "WebhookVerificationError"
    ELSE IF signature_header.prefix # "sha256=" THEN "WebhookVerificationError"
    ELSE IF ~signature_header.digest.ascii THEN "TypeError"
    ELSE IF signature_header.digest # HmacSha256(Secret, payload)
            THEN "WebhookVerificationError"
    ELSE "ok"

\* A response of the endpoint: verified is what verify_webhook_signature did
\* with the request answered.
Response(code, status, verified) ==
    [pc |-> "idle", delivery |-> "none", code |-> code, status |-> status,
     verified |-> verified]

\* github_webhook lines 45-85: signature, JSON, event type; a request that
\* passes goes on to process_webhook.  An exception other than
\* WebhookVerificationError leaves the endpoint (HTTP 500).
GithubWebhook(p, d, event, json, sig) ==
    /\ p <= nprocs
    /\ http[p].pc = "idle"
    /\ proc[p].pc = "idle"
    /\ calls > 0
    /\ LET v == verify_webhook_signature(Body(d, json), sig) IN
       IF v = "WebhookVerificationError"
          THEN /\ http' = [http EXCEPT ![p] = Response(401, "none", v)]
               /\ UNCHANGED proc
       ELSE IF v = "TypeError"
          THEN /\ http' = [http EXCEPT ![p] = Response(500, "none", v)]
               /\ UNCHANGED proc
       ELSE IF ~json
          THEN /\ http' = [http EXCEPT ![p] = Response(400, "none", v)]
               /\ UNCHANGED proc
       ELSE IF event \notin {"pull_request", "push", "repository"}
          THEN /\ http' = [http EXCEPT ![p] = Response(202, "ignored", v)]
               /\ UNCHANGED proc
       ELSE /\ http' = [http EXCEPT ![p] = [pc |-> "call", delivery |-> d, code |-> 0,
                                            status |-> "none", verified |-> v]]
            /\ proc' = [proc EXCEPT ![p] = IdleProc]
    /\ UNCHANGED <<world, rv, lp, failures, calls, now, nprocs, rel, adminVars, badgeVars,
                   args, ret>>

\* github_webhook line 90: processor.process_webhook(...)
ApiCall(p) ==
    /\ http[p].pc = "call"
    /\ proc[p] = IdleProc
    /\ Receive(p, http[p].delivery)

\* github_webhook lines 92-113: the result of process_webhook, or the error
\* body when it raised, is returned with status 202.
ApiReturn(p) ==
    /\ http[p].pc = "call"
    /\ proc[p].pc = "idle"
    /\ proc[p].result # "none"
    /\ http' = [http EXCEPT ![p].pc = "idle", ![p].code = 202,
                            ![p].status = proc[p].result]
    /\ UNCHANGED <<world, proc, rv, lp, failures, calls, now, nprocs, rel, adminVars, badgeVars,
                   args, ret>>

InitApi ==
    /\ deliveries = [d \in ApiDeliveryIds |-> NoDelivery]
    /\ prs = [q \in PrIds |-> NoPR]
    /\ txs = <<>>
    /\ totalPoints = [u \in Users |-> 0]
    /\ reviews = <<>>
    /\ auditlog = <<>>
    /\ InitQuiet
    /\ nprocs = 1
    /\ calls = MaxCalls

\* The steps of a request that was let in, up to its response
RequestSteps ==
    \/ \E p \in Procs : ApiCall(p)
    \/ \E p \in Procs : ApiReturn(p)
    \/ \E p \in Procs : Store(p)
    \/ \E p \in Procs : Mark(p)
    \/ \E p \in Procs : Fail(p)
    \/ OpenedNext
    \/ LifecycleNext

NextApi ==
    \/ \E p \in Procs, d \in ApiDeliveryIds, e \in EventTypeInputs, j \in BOOLEAN :
         \E s \in SignatureInputs(Body(d, j)) : GithubWebhook(p, d, e, j, s)
    \/ RequestSteps

\* Requests to POST /github, one at a time.
SpecApi == InitApi /\ [][NextApi]_vars

\* The same, with every request that was let in run to its response.  A new
\* request is sent from outside: nothing in the code schedules one, the
\* response to a failed delivery is 202 like any other, and no code enqueues
\* worker.github_tasks.process_webhook_async.
SpecRetry == InitApi /\ [][NextApi]_vars /\ WF_vars(RequestSteps)

-----------------------------------------------------------------------------
(* services/badge_evaluator.py: BadgeEvaluator.evaluate_streak *)

StreakYears == {2023, 2024}

StreakMonths == {1, 2, 11, 12}

\* mergedAt.strftime("%Y-%m"): the year and the month of a merge
MonthKeys == [year : StreakYears, month : StreakMonths]

\* The merged PRs of the user: the months that hold a merge, whether some
\* merged PR has no mergedAt, and the streak asked for
StreakInputs == [merged : SUBSET MonthKeys, unset : BOOLEAN, months : 1..MaxStreak]

\* "%Y-%m" strings compared as Python compares str
KeyGreater(a, b) ==
    \/ a.year > b.year
    \/ a.year = b.year /\ a.month > b.month

RECURSIVE SortedDescending(_)
\* sorted(contribution_months, reverse=True)
SortedDescending(S) ==
    IF S = {} THEN <<>>
    ELSE LET top == CHOOSE a \in S : \A b \in S \ {a} : KeyGreater(a, b)
         IN <<top>> \o SortedDescending(S \ {top})

\* The month before, taken within the year
PreviousMonth_sameYear(current) ==
    [year |-> current.year, month |-> current.month - 1]

\* lines 119-120: (current.replace(day=1) - timedelta(days=1)).replace(day=1)
PreviousMonth(current) ==
    IF current.month = 1
       THEN [year |-> current.year - 1, month |-> 12]
       ELSE [year |-> current.year, month |-> current.month - 1]

RECURSIVE StreakLoop(_, _, _, _)
\* lines 114-129: the loop from index i on, and the return after it
StreakLoop(sorted_months, i, current_streak, months) ==
    IF i > Len(sorted_months) - 1
       THEN current_streak >= months
       ELSE IF sorted_months[i + 1] = PreviousMonth(sorted_months[i])
               THEN IF current_streak + 1 >= months
                       THEN TRUE
                       ELSE StreakLoop(sorted_months, i + 1, current_streak + 1, months)
               ELSE StreakLoop(sorted_months, i + 1, 1, months)

\* evaluate_streak on the rows find_many returned
evaluate_streak(merged, unset, months) ==
    IF merged = {} /\ ~unset THEN FALSE
    ELSE IF Cardinality(merged) < months THEN FALSE
    ELSE StreakLoop(SortedDescending(merged), 1, 1, months)

InitStreak ==
    /\ EmptyWorld
    /\ NoBadges
    /\ NoTasks
    /\ proc = [p \in Procs |-> IdleProc]
    /\ rv = IdleRv
    /\ lp = [p \in Procs |-> IdleLp]
    /\ failures = 0
    /\ now = 10
    /\ nprocs = 0
    /\ calls = 0
    /\ \E in \in StreakInputs :
         args = [fn |-> "evaluate_streak", merged |-> in.merged, unset |-> in.unset,
                 months |-> in.months]
    /\ ret = NoRet

EvaluateStreak ==
    /\ args.fn = "evaluate_streak"
    /\ ~ret.done
    /\ ret' = Returned(evaluate_streak(args.merged, args.unset, args.months))
    /\ UNCHANGED <<world, proc, rv, lp, failures, calls, now, nprocs, taskVars, badgeVars, args>>

NextStreak == EvaluateStreak

\* evaluate_streak applied to every set of merge months.
SpecStreak == InitStreak /\ [][NextStreak]_vars

-----------------------------------------------------------------------------
(* worker/review_tasks.py: auto_release_stale_reviews *)

\* timeout_days: 14 by default; 0 makes every review started before now stale
TimeoutInputs == {0, 14}

\* lines 96-104: the PRs in UNDER_REVIEW whose reviewedAt is before the cutoff
ReleaseFind(timeout_days) ==
    /\ rel = {}
    /\ rv.pc = "idle"
    /\ rel' = {q \in PrIds : /\ prs[q].exists
                             /\ prs[q].status = "UNDER_REVIEW"
                             /\ prs[q].reviewedAt > 0
                             /\ prs[q].reviewedAt < now - timeout_days}
    /\ rel' # {}
    /\ UNCHANGED <<world, proc, rv, lp, failures, calls, now, nprocs, http, adminVars, badgeVars,
                   args, ret>>

\* lines 108-112: each PR found is written back to OPEN, whatever it holds now
ReleaseUpdate(q) ==
    /\ q \in rel
    /\ prs' = [prs EXCEPT ![q].status = "OPEN", ![q].reviewedAt = 0]
    /\ rel' = rel \ {q}
    /\ UNCHANGED <<deliveries, txs, totalPoints, reviews, auditlog, proc, rv, lp,
                   failures, calls, now, nprocs, http, adminVars, badgeVars, args, ret>>

ReleaseNext ==
    \/ \E t \in TimeoutInputs : ReleaseFind(t)
    \/ \E q \in PrIds : ReleaseUpdate(q)

\* transition_pr_state alone
TransitionNext ==
    \/ \E q \in PrIds, to \in StateInputs, r \in Reviewers : RvValidate(q, to, r)
    \/ RvWrite

NextRelease == ProcessorNext \/ LifecycleNext \/ TransitionNext \/ ReleaseNext

\* Reviews, deliveries and the release task working on p1.
SpecRelease == InitReview /\ [][NextRelease]_vars

-----------------------------------------------------------------------------
(* services/badge_evaluator.py, worker/badge_tasks.py *)

EvalArgs(fn, user, all_badges, earned, run) ==
    [fn |-> fn, user |-> user, all_badges |-> all_badges, earned |-> earned, run |-> run]

EvalRet(value, raised, repeat, seen) ==
    [done |-> TRUE, value |-> value, raised |-> raised, repeat |-> repeat, seen |-> seen]

EvalPending == [done |-> FALSE, value |-> {}, raised |-> "none", repeat |-> FALSE,
                seen |-> <<>>]

\* pullrequest.count(where={"authorId": user_id, "status": "MERGED"})
MergedCount(user_id) ==
    Cardinality({q \in PrIds : /\ prs[q].exists
                               /\ prs[q].authorId = user_id
                               /\ prs[q].status = "MERGED"})

\* BadgeEvaluator.evaluate_pr_count
evaluate_pr_count(user_id, threshold) == MergedCount(user_id) >= threshold

\* BadgeEvaluator.evaluate_first_pr
evaluate_first_pr(user_id) == evaluate_pr_count(user_id, 1)

\* The criteria types whose evaluation queries the database
QueriedTypes == {"pr_count", "first_pr"}

\* BadgeEvaluator.evaluate_badge_criteria: an unknown type is False, and so is
\* any exception raised by the query (query_fails).
evaluate_badge_criteria(user_id, badge, query_fails) ==
    IF badge.type \in QueriedTypes /\ query_fails THEN FALSE
    ELSE IF badge.type = "pr_count"
            THEN evaluate_pr_count(user_id, IF badge.hasThreshold THEN badge.threshold ELSE 0)
    ELSE IF badge.type = "first_pr" THEN evaluate_first_pr(user_id)
    ELSE FALSE

\* BadgeEvaluator.evaluate_all_badges lines 276-293: of the active badges read,
\* skip the earned ones and keep those whose criteria evaluate to True
evaluate_all_badges(user_id, all_badges, earned_badge_ids, failing) ==
    {b \in all_badges : /\ b \notin earned_badge_ids
                        /\ evaluate_badge_criteria(user_id, Badge(b), b \in failing)}

NoCallInFlight == args.fn = "none" \/ ret.done

\* evaluate_all_badges lines 269-273: read the active badges and the user's
\* awards; the queries either answer or raise
EabRead(user_id) ==
    /\ NoCallInFlight
    /\ \E o \in Outcomes :
         IF o = "ok"
            THEN /\ args' = EvalArgs("evaluate_all_badges", user_id, ActiveBadges,
                                     {userbadges[i].badgeId :
                                        i \in {j \in 1..Len(userbadges) :
                                                 userbadges[j].userId = user_id}},
                                     args.run)
                 /\ ret' = EvalPending
                 /\ UNCHANGED failures
            ELSE /\ args' = EvalArgs("evaluate_all_badges", user_id, {}, {}, args.run)
                 /\ ret' = EvalRet({}, "db_error", FALSE, <<>>)
                 /\ failures' = failures + 1
    /\ UNCHANGED <<world, proc, rv, lp, calls, now, nprocs, taskVars, badgeVars>>

\* evaluate_all_badges lines 276-293: evaluate each badge not yet earned; at
\* most one criteria query fails, and its exception is swallowed
EabReturn ==
    /\ args.fn = "evaluate_all_badges"
    /\ ~ret.done
    /\ \E failing \in {S \in SUBSET (args.all_badges \ args.earned) :
                         /\ Cardinality(S) <= MaxFailures - failures
                         /\ \A b \in S : Badge(b).type \in QueriedTypes} :
         /\ ret' = EvalRet(evaluate_all_badges(args.user, args.all_badges, args.earned,
                                               failing),
                           "none", FALSE, <<>>)
         /\ failures' = failures + Cardinality(failing)
    /\ UNCHANGED <<world, proc, rv, lp, calls, now, nprocs, taskVars, badgeVars, args>>

\* evaluate_user_badges with the loop of lines 45-54 awarding every badge
\* whose criteria hold, earned or not
TaskAwards_unchecked(user_id) ==
    {b \in ActiveBadges : evaluate_badge_criteria(user_id, Badge(b), FALSE)}

\* evaluate_user_badges lines 43-54: evaluate_all_badges is a coroutine
\* function called without await, so `qualifying` is a coroutine object and
\* `for badge in qualifying` raises TypeError before the first iteration: the
\* loop awards nothing.
TaskAwards(user_id) == {}

RECURSIVE AwardRows(_, _)
AwardRows(user_id, badges) ==
    IF badges = {} THEN <<>>
    ELSE LET b == CHOOSE x \in badges : TRUE IN
         <<[user |-> user_id, badge |-> b, by |-> "None"]>>
            \o AwardRows(user_id, badges \ {b})

UserBadgeRow(c) ==
    [userId |-> c.user, badgeId |-> c.badge, awardedBy |-> c.by, isManual |-> c.by # "None"]

\* The Celery task evaluate_user_badges: one run. Lines 74-88 turn every
\* exception into self.retry, which re-queues the task (a later run).
EvaluateUserBadges(user_id) ==
    /\ NoCallInFlight
    /\ args.run < MaxTaskRuns
    /\ Len(badgeauditlog) < MaxAudit
    /\ LET rows == AwardRows(user_id, TaskAwards(user_id))
           repeat == /\ args.fn = "evaluate_user_badges"
                     /\ args.user = user_id
                     /\ ret.done
                     /\ ret.seen = <<prs, userbadges>> IN
       /\ userbadges' = userbadges \o [i \in 1..Len(rows) |-> UserBadgeRow(rows[i])]
       /\ badgeauditlog' = badgeauditlog \o
                             [i \in 1..Len(rows) |-> AuditRow(rows[i], "AWARDED")]
       /\ args' = EvalArgs("evaluate_user_badges", user_id, {}, {}, args.run + 1)
       /\ ret' = EvalRet(TaskAwards(user_id), "TypeError", repeat, <<prs, userbadges'>>)
    /\ UNCHANGED <<world, proc, rv, lp, failures, calls, now, nprocs, taskVars, bs>>

MergedPR == [OpenedPR EXCEPT !.status = "MERGED", !.mergedAt = 5]

InitEval ==
    /\ deliveries = [d \in DeliveryIds |-> NoDelivery]
    /\ prs \in [PrIds -> {OpenedPR, MergedPR}]
    /\ txs = <<>>
    /\ totalPoints = [u \in Users |-> 0]
    /\ reviews = <<>>
    /\ auditlog = <<>>
    /\ NoBadges
    /\ NoTasks
    /\ proc = [p \in Procs |-> IdleProc]
    /\ rv = IdleRv
    /\ lp = [p \in Procs |-> IdleLp]
    /\ failures = 0
    /\ now = 10
    /\ nprocs = 0
    /\ calls = 0
    /\ args = EvalArgs("none", "none", {}, {}, 0)
    /\ ret = EvalPending

NextEval ==
    \/ \E u \in Users : EabRead(u)
    \/ EabReturn
    \/ \E u \in Users : EvaluateUserBadges(u)
    \/ \E u \in Users, b \in BadgeInputs : AbCheck(1, u, b, "admin")
    \/ AbCreate(1)
    \/ AbAudit(1)
    \/ \E u \in Users, b \in BadgeInputs : RbFind(1, u, b)
    \/ RbDelete(1)
    \/ RbAudit(1)

\* Badge evaluation and the evaluation task, interleaved with an admin's manual
\* awards and revocations.
SpecEval == InitEval /\ [][NextEval]_vars

-----------------------------------------------------------------------------
(* services/scoring_engine.py: ScoringEngine.apply_gaming_prevention;
   services/gaming_detector.py: GamingDetector.detect_repo_farming *)

\* scoring_engine.py line 156
max_points_per_repo_per_month == 1000

\* gaming_detector.py line 99: the default of max_points
FarmingMaxPoints == 500

WindowRepos == {"r1", "r2"}

\* Points of a transaction: a reversal, an opening award, two large awards
WindowPoints == {-70, 10, 400, 600}

\* createdAt in days; utcnow() is day 100, so the 30-day cutoff is day 70
WindowDays == {60, 70, 95}

WindowRows == [userId : {"u1"}, repositoryId : WindowRepos, createdAt : WindowDays,
               points : WindowPoints]

WindowLedgers == UNION {[1..n -> WindowRows] : n \in 0..MaxWindowTx}

ScoreInputs == {0, 80, 500}

\* sum(t.points for t in transactions)
RECURSIVE SumOfPoints(_)
SumOfPoints(rows) ==
    IF rows = <<>> THEN 0 ELSE rows[1].points + SumOfPoints(Tail(rows))

\* pointtransaction.find_many(where={"userId", "createdAt": {"gte": cutoff},
\* "pullRequest": {"repositoryId"}})
WindowTransactions(ledger, user_id, repo_id, cutoff) ==
    SelectSeq(ledger, LAMBDA t : /\ t.userId = user_id
                                 /\ t.createdAt >= cutoff
                                 /\ t.repositoryId = repo_id)

Min(a, b) == IF a <= b THEN a ELSE b

\* apply_gaming_prevention with the cap test of line 158 left out
apply_gaming_prevention_uncapped(ledger, utcnow, user_id, repo_id, score, period_days) ==
    score

\* ScoringEngine.apply_gaming_prevention
apply_gaming_prevention(ledger, utcnow, user_id, repo_id, score, period_days) ==
    LET cutoff_date == utcnow - period_days
        transactions == WindowTransactions(ledger, user_id, repo_id, cutoff_date)
        total_points_in_period == SumOfPoints(transactions) IN
    IF total_points_in_period >= max_points_per_repo_per_month THEN 0
    ELSE Min(score, max_points_per_repo_per_month - total_points_in_period)

\* GamingDetector.detect_repo_farming
detect_repo_farming(ledger, utcnow, user_id, repo_id, max_points) ==
    LET total_points == SumOfPoints(WindowTransactions(ledger, user_id, repo_id, utcnow - 30)) IN
    [exceeds_cap |-> total_points >= max_points,
     total_points |-> total_points,
     cap |-> max_points,
     remaining |-> Max(0, max_points - total_points)]

InitCap ==
    /\ EmptyWorld
    /\ NoBadges
    /\ NoTasks
    /\ proc = [p \in Procs |-> IdleProc]
    /\ rv = IdleRv
    /\ lp = [p \in Procs |-> IdleLp]
    /\ failures = 0
    /\ now = 10
    /\ nprocs = 0
    /\ calls = 0
    /\ args \in [fn : {"apply_gaming_prevention"}, ledger : WindowLedgers, utcnow : {100},
                 user_id : {"u1"}, repo_id : {"r1"}, score : ScoreInputs,
                 period_days : {30}]
    /\ ret = NoRet

ApplyGamingPrevention ==
    /\ args.fn = "apply_gaming_prevention"
    /\ ~ret.done
    /\ ret' = Returned([score |-> apply_gaming_prevention(args.ledger, args.utcnow,
                                     args.user_id, args.repo_id, args.score,
                                     args.period_days),
                        farming |-> detect_repo_farming(args.ledger, args.utcnow,
                                     args.user_id, args.repo_id, FarmingMaxPoints)])
    /\ UNCHANGED <<world, proc, rv, lp, failures, calls, now, nprocs, taskVars, badgeVars,
                   args>>

NextCap == ApplyGamingPrevention

\* One call of apply_gaming_prevention (and of detect_repo_farming) on any ledger.
SpecCap == InitCap /\ [][NextCap]_vars

-----------------------------------------------------------------------------
(* services/abuse_detector.py *)

\* A reviewer's PRReview rows, given as groups of n reviews that agree in
\* action, in the author of the reviewed PR, in falling inside the last 30
\* days, and in the rating (0: no rating).
GroupSizes == {3, 9, 10}

ReviewGroupRows == [n : GroupSizes, action : {"APPROVED", "REQUESTED_CHANGES"},
                    authorId : {"u1", "u2"}, recent : BOOLEAN, rating : {0, 3, 5}]

ReviewGroupInputs == UNION {[1..k -> ReviewGroupRows] : k \in 0..MaxGroups}

\* len() of the rows of the groups that satisfy a `where`
CountWhere(groups, where(_)) ==
    SumSeq([i \in 1..Len(groups) |-> IF where(groups[i]) THEN groups[i].n ELSE 0])

\* The smallest sample a rate is computed from (lines 81 and 159)
MinSampleSize == 10

\* AbuseDetector.detect_spam_rejections, threshold 0.8: rate > 0.8 as
\* 10 * rejections > 8 * sample
detect_spam_rejections(groups) ==
    LET InSample(g) == g.recent /\ g.action \in {"APPROVED", "REQUESTED_CHANGES"}
        Rejected(g) == InSample(g) /\ g.action = "REQUESTED_CHANGES"
        sample == CountWhere(groups, InSample)
        rejections == CountWhere(groups, Rejected) IN
    IF sample < MinSampleSize
       THEN [is_spam |-> FALSE, sample_size |-> sample]
       ELSE [is_spam |-> 10 * rejections > 8 * sample, sample_size |-> sample]

\* AbuseDetector.detect_targeted_blocking: every REQUESTED_CHANGES review of
\* the contributor's PRs counts, of any age, and no sample size is asked for
detect_targeted_blocking(groups, contributor_id, threshold) ==
    LET Rejected(g) == g.authorId = contributor_id /\ g.action = "REQUESTED_CHANGES"
        count == CountWhere(groups, Rejected) IN
    [is_targeted |-> count >= threshold, rejection_count |-> count]

\* AbuseDetector.detect_rating_manipulation, threshold 0.9: rate > 0.9 as
\* 10 * extreme > 9 * sample
detect_rating_manipulation(groups) ==
    LET Rated(g) == g.rating # 0
        Extreme(g) == g.rating \in {1, 5}
        sample == CountWhere(groups, Rated)
        extreme_ratings == CountWhere(groups, Extreme) IN
    IF sample < MinSampleSize
       THEN [is_manipulation |-> FALSE, sample_size |-> sample]
       ELSE [is_manipulation |-> 10 * extreme_ratings > 9 * sample,
             sample_size |-> sample]

InitAbuse ==
    /\ EmptyWorld
    /\ NoBadges
    /\ NoTasks
    /\ proc = [p \in Procs |-> IdleProc]
    /\ rv = IdleRv
    /\ lp = [p \in Procs |-> IdleLp]
    /\ failures = 0
    /\ now = 10
    /\ nprocs = 0
    /\ calls = 0
    /\ args \in [fn : {"abuse_checks"}, groups : ReviewGroupInputs, contributor_id : {"u1"},
                 threshold : {3}]
    /\ ret = NoRet

\* The three checks, each called once on the same reviews
AbuseChecks ==
    /\ args.fn = "abuse_checks"
    /\ ~ret.done
    /\ ret' = Returned([spam |-> detect_spam_rejections(args.groups),
                        targeted |-> detect_targeted_blocking(args.groups,
                                        args.contributor_id, args.threshold),
                        rating |-> detect_rating_manipulation(args.groups)])
    /\ UNCHANGED <<world, proc, rv, lp, failures, calls, now, nprocs, taskVars, badgeVars,
                   args>>

NextAbuse == AbuseChecks

\* The reviewer-abuse checks on any set of reviews of one reviewer.
SpecAbuse == InitAbuse /\ [][NextAbuse]_vars

-----------------------------------------------------------------------------
(* services/rank_calculator.py: RankCalculator.save_rank_snapshot;
   services/leaderboard_service.py: LeaderboardService.save_leaderboard_snapshot *)

LeaderboardTypes == {"GLOBAL", "MONTHLY"}

\* The `ranks` a calculation hands to a save
RankLists ==
    {<<>>,
     <<[user_id |-> "u1", rank |-> 1, points |-> 10]>>,
     <<[user_id |-> "u1", rank |-> 1, points |-> 10],
       [user_id |-> "u2", rank |-> 2, points |-> 5]>>,
     <<[user_id |-> "u2", rank |-> 1, points |-> 20],
       [user_id |-> "u1", rank |-> 2, points |-> 10]>>}

\* datetime.utcnow() was read fewer than MaxSaves times; every read is later
\* than the one before (a save includes at least one database round trip)
ClockLeft == now - 10 < MaxSaves

RankRow(rank_data, leaderboard_type, snapshot_at) ==
    [userId |-> rank_data.user_id, leaderboardType |-> leaderboard_type,
     rank |-> rank_data.rank, totalPoints |-> rank_data.points,
     snapshotAt |-> snapshot_at]

\* save_rank_snapshot line 181: snapshot_at is read once, before the loop
SaveRankBegin(leaderboard_type, ranks) ==
    /\ snaps.type = "none"
    /\ ClockLeft
    /\ snaps' = [snaps EXCEPT !.pending = ranks,
                                      !.type = IF ranks = <<>> THEN "none"
                                               ELSE leaderboard_type,
                                      !.snapshot_at = now]
    /\ now' = now + 1
    /\ UNCHANGED <<world, proc, rv, lp, failures, calls, nprocs, http, rel, isBanned,
                   badgeVars, args, ret>>

\* A save that writes the user's row of the leaderboard in place when there
\* is one
SaveRankCreate_upsert ==
    /\ snaps.type # "none"
    /\ LET row == RankRow(Head(snaps.pending), snaps.type, snaps.snapshot_at)
           old == {i \in 1..Len(snaps.rank) :
                     /\ snaps.rank[i].userId = row.userId
                     /\ snaps.rank[i].leaderboardType = row.leaderboardType}
           rest == Tail(snaps.pending) IN
       snaps' = [snaps EXCEPT
                       !.rank = IF old = {} THEN Append(@, row)
                                ELSE [i \in 1..Len(@) |-> IF i \in old THEN row ELSE @[i]],
                       !.pending = rest,
                       !.type = IF rest = <<>> THEN "none" ELSE @]
    /\ UNCHANGED <<world, proc, rv, lp, failures, calls, now, nprocs, http, rel, isBanned,
                   badgeVars, args, ret>>

\* save_rank_snapshot lines 184-194: one ranksnapshot.create per entry; a
\* create that raises ends the call with the rows created so far in place
SaveRankCreate ==
    /\ snaps.type # "none"
    /\ \E o \in Outcomes :
         IF o = "ok"
            THEN /\ LET rest == Tail(snaps.pending) IN
                    snaps' = [snaps EXCEPT
                                    !.rank = Append(@, RankRow(Head(snaps.pending),
                                                               snaps.type,
                                                               snaps.snapshot_at)),
                                    !.pending = rest,
                                    !.type = IF rest = <<>> THEN "none" ELSE @]
                 /\ UNCHANGED failures
            ELSE /\ snaps' = [snaps EXCEPT !.pending = <<>>, !.type = "none"]
                 /\ failures' = failures + 1
    /\ UNCHANGED <<world, proc, rv, lp, calls, now, nprocs, http, rel, isBanned,
                   badgeVars, args, ret>>

\* save_leaderboard_snapshot: one leaderboardsnapshot.create
SaveLeaderboard(leaderboard_type, top_users) ==
    /\ ClockLeft
    /\ \E o \in Outcomes :
         IF o = "ok"
            THEN /\ snaps' = [snaps EXCEPT
                                    !.board = Append(@, [leaderboardType |-> leaderboard_type,
                                                         topUsers |-> top_users,
                                                         snapshotAt |-> now])]
                 /\ UNCHANGED failures
            ELSE /\ failures' = failures + 1
                 /\ UNCHANGED snaps
    /\ now' = now + 1
    /\ UNCHANGED <<world, proc, rv, lp, calls, nprocs, http, rel, isBanned,
                   badgeVars, args, ret>>

InitSnapshot ==
    /\ EmptyWorld
    /\ InitQuiet
    /\ nprocs = 0
    /\ calls = 0

NextSnapshot ==
    \/ \E t \in LeaderboardTypes, ranks \in RankLists : SaveRankBegin(t, ranks)
    \/ SaveRankCreate
    \/ \E t \in LeaderboardTypes, ranks \in RankLists : SaveLeaderboard(t, ranks)

\* Snapshot saves of the two tables, one after another and interleaved.
SpecSnapshot == InitSnapshot /\ [][NextSnapshot]_vars

-----------------------------------------------------------------------------
(* services/event_deduplicator.py: EventDeduplicator.generate_fingerprint *)

\* A str is a sequence of characters. A delivery id is any text of the header
\* X-GitHub-Delivery: letters, digits and colons.
IdChars == {"x", "1", ":"}

DeliveryIdInputs == UNION {[1..n -> IdChars] : n \in 0..MaxIdLen}

\* Event types and actions are the words GitHub sends; each word stands here
\* as one symbol, and none of them holds a colon.
EventTypeWords == {<<"pull_request">>, <<"issues">>}

ActionWords == {<<"opened">>, <<"closed">>}

PrIdInputs == {1, 2, 12}

FingerprintTuples == [delivery_id : DeliveryIdInputs, event_type : EventTypeWords,
                      action : ActionWords, pr_id : PrIdInputs]

Digit(n) == CASE n = 0 -> "0" [] n = 1 -> "1" [] n = 2 -> "2" [] n = 3 -> "3"
              [] n = 4 -> "4" [] n = 5 -> "5" [] n = 6 -> "6" [] n = 7 -> "7"
              [] n = 8 -> "8" [] OTHER -> "9"

\* str(n) of a natural number, as the f-string formats it
RECURSIVE Str(_)
Str(n) == IF n < 10 THEN <<Digit(n)>> ELSE Str(n \div 10) \o <<Digit(n % 10)>>

\* The delivery id and the event type alone
fingerprint_data_deliveryOnly(delivery_id, event_type, action, pr_id) ==
    delivery_id \o <<":">> \o event_type

\* generate_fingerprint line 45: f"{delivery_id}:{event_type}:{action}:{pr_id}"
fingerprint_data(delivery_id, event_type, action, pr_id) ==
    delivery_id \o <<":">> \o event_type \o <<":">> \o action \o <<":">> \o Str(pr_id)

\* hashlib.sha256(...).hexdigest()[:64]: the whole digest (64 hex digits),
\* taken as free of collisions: the digest stands for its input
Sha256Hex(data) == [sha256 |-> data]

\* EventDeduplicator.generate_fingerprint
generate_fingerprint(delivery_id, event_type, action, pr_id) ==
    Sha256Hex(fingerprint_data(delivery_id, event_type, action, pr_id))

InitFingerprint ==
    /\ EmptyWorld
    /\ NoBadges
    /\ NoTasks
    /\ proc = [p \in Procs |-> IdleProc]
    /\ rv = IdleRv
    /\ lp = [p \in Procs |-> IdleLp]
    /\ failures = 0
    /\ now = 10
    /\ nprocs = 0
    /\ calls = 0
    /\ args \in [fn : {"generate_fingerprint"}, a : FingerprintTuples,
                 b : FingerprintTuples]
    /\ ret = NoRet

\* generate_fingerprint called for two events, the first of them twice
GenerateFingerprints ==
    /\ args.fn = "generate_fingerprint"
    /\ ~ret.done
    /\ LET Of(t) == generate_fingerprint(t.delivery_id, t.event_type, t.action, t.pr_id) IN
       ret' = Returned([a |-> Of(args.a), again |-> Of(args.a), b |-> Of(args.b)])
    /\ UNCHANGED <<world, proc, rv, lp, failures, calls, now, nprocs, taskVars, badgeVars,
                   args>>

NextFingerprint == GenerateFingerprints

\* generate_fingerprint applied to every pair of events.
SpecFingerprint == InitFingerprint /\ [][NextFingerprint]_vars

-----------------------------------------------------------------------------
(* services/admin_scoring_tools.py: freeze_user_score, unfreeze_user_score *)

\* freeze_user_score line 42 and unfreeze_user_score line 76: user.update of
\* isBanned
FzUpdate(p, user_id, frozen) ==
    /\ lp[p].pc = "idle"
    /\ Len(auditlog) < MaxAudit
    /\ \E o \in Outcomes :
         IF o = "ok"
            THEN /\ isBanned' = [isBanned EXCEPT ![user_id] = frozen]
                 /\ lp' = [lp EXCEPT ![p] = [IdleLp EXCEPT !.pc = "fz_audit",
                                                           !.user = user_id,
                                                           !.result = IF frozen
                                                                         THEN "freeze"
                                                                         ELSE "unfreeze"]]
                 /\ UNCHANGED failures
            ELSE /\ failures' = failures + 1
                 /\ lp' = [lp EXCEPT ![p] = IdleLp]
                 /\ UNCHANGED isBanned
    /\ UNCHANGED <<world, proc, rv, calls, now, nprocs, http, rel, snaps, badgeVars,
                   args, ret>>

\* freeze_user_score lines 45-52 and unfreeze_user_score lines 79-86: the
\* audit row
FzAudit(p) ==
    /\ lp[p].pc = "fz_audit"
    /\ \E o \in Outcomes :
         IF o = "ok"
            THEN /\ auditlog' = Append(auditlog,
                                       [userId |-> "admin",
                                        action |-> IF lp[p].result = "freeze"
                                                      THEN "FREEZE_USER_SCORE"
                                                      ELSE "UNFREEZE_USER_SCORE",
                                        targetId |-> 0, targetUser |-> lp[p].user])
                 /\ UNCHANGED failures
            ELSE /\ failures' = failures + 1
                 /\ UNCHANGED auditlog
    /\ lp' = [lp EXCEPT ![p] = IdleLp]
    /\ UNCHANGED <<deliveries, prs, txs, totalPoints, reviews, proc, rv, calls, now, nprocs,
                   taskVars, badgeVars, args, ret>>

FreezeNext ==
    \/ \E u \in Users, frozen \in BOOLEAN : FzUpdate(1, u, frozen)
    \/ FzAudit(1)
    \/ \E u \in Users, q \in PrIds, n \in PointInputs : award_points(u, q, n)

NextFreeze == ProcessorNext \/ LifecycleNext \/ FreezeNext

\* An admin freezes and unfreezes scores while deliveries for p1 arrive and
\* points are awarded.
SpecFreeze == InitReview /\ [][NextFreeze]_vars

-----------------------------------------------------------------------------
(* Redelivery of the merge; services/advanced_scoring_engine.py: should_score_pr *)

\* D7 is GitHub's redelivery of the merge of p1: the payload of D2 under a
\* delivery id of its own.
RedeliveryIds == DeliveryIds \cup {"D7"}

\* AdvancedScoringEngine.should_score_pr: no transaction of the PR has the
\* reason PR_<EVENT> yet. No handler calls it.
should_score_pr(q, event) ==
    /\ event \in {"merged", "closed"}
    /\ prs[q].exists
    /\ ~\E i \in 1..Len(txs) :
          /\ txs[i].pullRequestId = q
          /\ txs[i].reason = (IF event = "merged" THEN "PR_MERGED" ELSE "PR_CLOSED")

InitRedelivery ==
    /\ deliveries = [d \in RedeliveryIds |-> NoDelivery]
    /\ prs = [q \in PrIds |-> NoPR]
    /\ txs = <<>>
    /\ totalPoints = [u \in Users |-> 0]
    /\ reviews = <<>>
    /\ auditlog = <<>>
    /\ InitQuiet
    /\ nprocs = 1
    /\ calls = MaxCalls

NextRedelivery ==
    \/ \E p \in Procs, d \in RedeliveryIds : Receive(p, d)
    \/ \E p \in Procs : Store(p)
    \/ \E p \in Procs : Mark(p)
    \/ \E p \in Procs : Fail(p)
    \/ OpenedNext
    \/ LifecycleNext

\* Deliveries for p1, one at a time, the merge delivered under two ids.
SpecRedelivery == InitRedelivery /\ [][NextRedelivery]_vars

-----------------------------------------------------------------------------
(* Properties of webhook processing *)

\* The number of transactions with the given reason on PR q
CountTx(q, reason) ==
    Cardinality({i \in 1..Len(txs) : txs[i].pullRequestId = q /\ txs[i].reason = reason})

AllIdle == \A p \in Procs : proc[p].pc = "idle"

\* C1: however often one delivery is processed, re-processing after a failed
\* attempt included, an 'opened' delivery that ended processed has made one PR
\* row and exactly one PR_OPENED transaction, and a merged 'closed' delivery
\* has awarded its merge points at most once.
C1_ReplayExactlyOnce ==
    \A d \in DeliveryIds :
        LET pl == Payload(d) IN
        /\ (pl.action = "opened" /\ deliveries[d].processed)
              => (prs[pl.pr].exists /\ CountTx(pl.pr, "PR_OPENED") = 1)
        /\ (pl.action = "closed" /\ pl.merged) => CountTx(pl.pr, "PR_MERGED") <= 1

\* The steps a handler reaches only after it has written a PR row
PostWrite == {"op_tx", "op_bal", "cl_tx", "cl_bal"}

\* C2: of two overlapping process_webhook calls for the same delivery, only
\* one performs side effects; never have both of them written.
C2_LoserNoSideEffects ==
    \A p, q \in Procs :
        (p # q /\ proc[p].delivery = proc[q].delivery)
            => ~(proc[p].pc \in PostWrite /\ proc[q].pc \in PostWrite)

\* C6: MERGED is terminal; no step changes a stored MERGED status.
C6_MergedTerminal ==
    [][\A q \in PrIds : prs[q].status = "MERGED" => prs'[q].status = "MERGED"]_vars

\* The ratings left on PR q
RatingsOf(q) ==
    {i \in 1..Len(reviews) : reviews[i].pullRequestId = q /\ reviews[i].rating # 0}

\* The mean of the ratings on PR q is 5
AvgRatingIs5(q) ==
    /\ RatingsOf(q) # {}
    /\ \A i \in RatingsOf(q) : reviews[i].rating = 5

\* C8: the merge of a PR with diffSize 150 and average rating 5 awards 75 points.
C8_MergeAwards75 ==
    [][\A q \in PrIds :
          (/\ Len(txs') = Len(txs) + 1
           /\ txs'[Len(txs')].reason = "PR_MERGED"
           /\ txs'[Len(txs')].pullRequestId = q
           /\ prs[q].diffSize = 150
           /\ AvgRatingIs5(q))
          => txs'[Len(txs')].points = 75]_vars

\* C10: every award is atomic; once no handler is in flight, each contributor's
\* transactions and cached balance agree, also after a failure inside an award.
C10_AwardAtomic ==
    AllIdle => \A u \in Users : SumPoints(txs, u) = totalPoints[u]

\* C24: the MERGED status of a PR and its merge award are one atomic unit: once
\* no handler is in flight, also after a failure between the steps of a merged
\* 'closed' event, a PR is MERGED exactly when its PR_MERGED award is recorded.
C24_MergeAndAwardTogether ==
    AllIdle => \A q \in PrIds :
                 (prs[q].status = "MERGED") <=> (CountTx(q, "PR_MERGED") > 0)

\* C28: scoring is applied once per logical event: when a delivery is processed
\* again after its scoring was applied (the handler scored, then marking the
\* delivery processed failed), the webhook path awards no further points, i.e.
\* no handler creates a transaction for a PR and reason that already have one.
C28_ScoringAppliedOnce ==
    [][\A p \in Procs :
          (proc[p].pc \in {"op_tx", "cl_tx"} /\ Len(txs') = Len(txs) + 1)
             => CountTx(Payload(proc[p].delivery).pr, txs'[Len(txs')].reason) = 0]_vars

\* C19: a failed attempt raises the delivery's failureCount by exactly one,
\* records the last error and does not mark the delivery processed (so that k
\* failed attempts and no success leave failureCount = k, processed = false).
C19_FailureCounted ==
    [][\A p \in Procs :
          (proc[p].pc = "fail" /\ proc'[p].pc = "idle")
            => LET d == proc[p].delivery IN
               /\ deliveries'[d].failureCount = deliveries[d].failureCount + 1
               /\ deliveries'[d].lastError = "error"
               /\ deliveries'[d].processed = deliveries[d].processed]_vars

\* C20: a process_webhook call for a delivery recorded as processed returns
\* 'already_processed' and writes nothing; a call gets past the lookup only
\* for a delivery that is not processed.
C20_ProcessedShortCircuit ==
    [][\A p \in Procs :
          (proc[p].pc = "idle" /\ proc'[p] # proc[p])
            => IF proc'[p].pc = "idle"
                  THEN /\ proc'[p].result = "already_processed"
                       /\ world' = world
                  ELSE ~deliveries[proc'[p].delivery].processed]_vars

\* C20 witness: a repeated delivery of the processed 'opened' event was
\* answered 'already_processed'; one PR, one transaction, balance 10
C20_Witness ==
    /\ \E p \in Procs : proc[p].result = "already_processed"
    /\ deliveries["D1"].processed
    /\ \A d \in DeliveryIds \ {"D1"} : ~deliveries[d].exists
    /\ CountTx("p1", "PR_OPENED") = 1
    /\ totalPoints["u1"] = OpenedPoints
    /\ calls = MaxCalls - 2

\* The transitions the lifecycle table allows, same-state requests included
AllowedByTable(from, to) ==
    /\ from \in PRState
    /\ to \in PRState
    /\ \/ from = to
       \/ from = "OPEN" /\ to \in {"UNDER_REVIEW", "CLOSED"}
       \/ from = "UNDER_REVIEW" /\ to \in {"CHANGES_REQUESTED", "APPROVED", "CLOSED"}
       \/ from = "CHANGES_REQUESTED" /\ to \in {"OPEN", "CLOSED"}
       \/ from = "APPROVED" /\ to \in {"MERGED", "CLOSED"}
       \/ from = "CLOSED" /\ to = "OPEN"

-----------------------------------------------------------------------------
(* Properties of the ledger *)

\* C3: for every contributor the signed sum of the contributor's transactions
\* equals the cached totalPoints, after any interleaving of award_points,
\* create_reversal and reverse_transaction.
C3_BalanceInvariant ==
    \A u \in Users : SumPoints(txs, u) = totalPoints[u]

\* C3 witness: both kinds of reversal have committed, one of them booked on a
\* user other than the original's, and a balance is non-zero.
C3_Witness ==
    /\ \E i \in 1..Len(txs) :
          /\ txs[i].transactionType = "REVERSAL"
          /\ txs[i].userId # txs[txs[i].original].userId
    /\ Len(auditlog) > 0
    /\ \E u \in Users : totalPoints[u] # 0

\* C11: a reversal appends exactly one REVERSAL row with the negated points of
\* the original and a reference to it, leaves every earlier row as it was, and
\* takes the original's points off the balance of the original's contributor
\* (so that award followed by reversal restores the balance before the award).
C11_ReversalRestores ==
    [][(Len(txs') > Len(txs) /\ txs'[Len(txs')].transactionType = "REVERSAL")
       => LET r == txs'[Len(txs')]
              o == txs[r.original] IN
          /\ Len(txs') = Len(txs) + 1
          /\ SubSeq(txs', 1, Len(txs)) = txs
          /\ r.points = -o.points
          /\ totalPoints'[o.userId] = totalPoints[o.userId] - o.points]_vars

\* C12: verify_ledger_integrity(user) answers true exactly when the sum of the
\* user's transaction points equals the user's cached totalPoints (false for an
\* unknown user), and writes nothing.
C12_VerifyReportsMismatch ==
    [][\A p \in Procs :
          (lp[p].pc = "vf_compare" /\ lp'[p].pc = "idle")
            => LET u == lp[p].user IN
               /\ lp'[p].result = "true"
                     <=> (u \in Users /\ SumPoints(txs, u) = totalPoints[u])
               /\ txs' = txs
               /\ totalPoints' = totalPoints]_vars

-----------------------------------------------------------------------------
(* Properties of the badges *)

\* C13: at most one award row per (contributor, badge) pair in every state,
\* also when award_badge calls for the same pair overlap.
C13_OneAwardPerPair ==
    \A u \in Users, b \in BadgeInputs :
        Cardinality(RowsOf(userbadges, u, b)) <= 1

\* C13 witness: two overlapping awards of one pair, an automatic and a manual
\* one, both past has_badge; one made the row, the other's create raised.
C13_Witness ==
    /\ bs[1].op = "award" /\ bs[2].op = "award"
    /\ bs[1].user = bs[2].user /\ bs[1].badge = bs[2].badge
    /\ bs[1].by # bs[2].by
    /\ bs[1].result = "awarded" /\ bs[2].result = "error"
    /\ failures = 0
    /\ Cardinality(RowsOf(userbadges, bs[1].user, bs[1].badge)) = 1

\* C14: award_badge for a pair that is already held returns None and writes
\* neither an award row nor an audit row.
C14_AlreadyHeld ==
    [][\A p \in Procs :
          (/\ bs[p].pc = "idle"
           /\ bs'[p] # bs[p]
           /\ bs'[p].op = "award"
           /\ RowsOf(userbadges, bs'[p].user, bs'[p].badge) # {})
          => (/\ bs'[p].pc = "idle"
              /\ bs'[p].result = "None"
              /\ userbadges' = userbadges
              /\ badgeauditlog' = badgeauditlog)]_vars

\* C14 witness: an award of a held badge was answered None
C14_Witness ==
    \E p \in Procs :
        /\ bs[p].op = "award"
        /\ bs[p].result = "None"
        /\ RowsOf(userbadges, bs[p].user, bs[p].badge) # {}
        /\ Len(badgeauditlog) = 1

\* The audit rows of the pair with the given action
CountAudit(u, b, action) ==
    Cardinality({i \in 1..Len(badgeauditlog) :
                    /\ badgeauditlog[i].userId = u
                    /\ badgeauditlog[i].badgeId = b
                    /\ badgeauditlog[i].action = action})

\* C15: once no badge call is in flight, every award and every revocation has
\* its audit row: for each pair, AWARDED rows minus REVOKED rows is the number
\* of award rows held (each award adds one, each revocation removes one).
C15_AuditComplete ==
    (\A p \in Procs : bs[p].pc = "idle")
        => \A u \in Users, b \in BadgeInputs :
              CountAudit(u, b, "AWARDED") - CountAudit(u, b, "REVOKED")
                  = Cardinality(RowsOf(userbadges, u, b))

-----------------------------------------------------------------------------
(* Properties of the pure functions *)

FloorProduct(b, m) ==
    (b * m.review_rating * m.test_coverage * m.documentation) \div Scale

\* C7: final = max(0, floor(base * product of multipliers) - sum of penalties)
C7_FinalFormula ==
    (ret.done /\ ret.value.score.ok)
        => LET b == ret.value.score IN
           b.final_score =
               Max(0, FloorProduct(b.base_score, b.multipliers)
                        - (b.penalties.spam + b.penalties.low_value
                             + b.penalties.violation))

\* C7 witness: a fractional product with a penalty: 7 * 1.5 - 3 gives 7
C7_Witness ==
    /\ ret.done
    /\ ret.value.score.ok
    /\ ret.value.score.base_score = 7
    /\ ret.value.score.multipliers.review_rating = 15
    /\ ret.value.score.penalties.spam = 3
    /\ ret.value.score.final_score = 7

\* C9: a PR of magnitude 0 <= m < 10 is flagged as spam and carries the spam
\* penalty of its rules (20 by default), so final = max(0, base * multipliers
\* - penalty); a PR with m >= 10 carries none.
C9_SpamBelowThreshold ==
    (ret.done /\ args.fn = "calculate_score" /\ args.diffSize # NoDiff
              /\ ret.value.score.ok)
        => LET b == ret.value.score
               rules == IF args.rules = NoRules THEN DefaultRules ELSE args.rules
           IN IF args.diffSize < 10
                 THEN /\ ret.value.spam_check.is_spam
                      /\ b.penalties.spam = rules.spam
                      /\ b.final_score =
                            Max(0, FloorProduct(b.base_score, b.multipliers) - rules.spam)
                 ELSE /\ ~ret.value.spam_check.is_spam
                      /\ b.penalties.spam = 0

-----------------------------------------------------------------------------
(* Properties of the rank calculations *)

RankFns == {"calculate_global_ranks", "calculate_monthly_ranks",
            "calculate_project_ranks"}

PeriodFns == {"calculate_monthly_ranks", "calculate_project_ranks"}

\* The contributors a calculation ranks
Ranked ==
    IF args.fn = "calculate_global_ranks"
       THEN {args.users[i] : i \in 1..Len(args.users)}
       ELSE {args.transactions[i].userId : i \in 1..Len(args.transactions)}

RECURSIVE SumOf(_, _)
\* The points of user u in the transactions
SumOf(transactions, u) ==
    IF transactions = <<>> THEN 0
    ELSE (IF Head(transactions).userId = u THEN Head(transactions).points ELSE 0)
            + SumOf(Tail(transactions), u)

\* The points a calculation ranks user u by
RankedPoints(u) ==
    IF args.fn = "calculate_global_ranks" THEN args.points[u]
    ELSE SumOf(args.transactions, u)

\* C16: over N ranked contributors the output carries the ranks 1..N in
\* order, each once, every contributor once with the contributor's points,
\* points descending.
C16_RanksOneToN ==
    (ret.done /\ args.fn \in RankFns)
        => LET r == ret.value IN
           /\ Len(r) = Cardinality(Ranked)
           /\ \A i \in 1..Len(r) : r[i].rank = i
           /\ {r[i].user_id : i \in 1..Len(r)} = Ranked
           /\ \A i \in 1..Len(r) : r[i].points = RankedPoints(r[i].user_id)
           /\ \A i, j \in 1..Len(r) : i < j => r[i].points >= r[j].points

\* C16 witness: three contributors ranked, two of them level on points
C16_Witness ==
    /\ ret.done
    /\ args.fn = "calculate_monthly_ranks"
    /\ Len(ret.value) = 3
    /\ ret.value[1].points = 10
    /\ ret.value[2].points = 5
    /\ ret.value[3].points = 5
    /\ ret.value[3].rank = 3

\* The time of the first contribution of user u among the transactions
FirstContribution(transactions, u) ==
    LET times == {transactions[i].createdAt :
                    i \in {k \in 1..Len(transactions) : transactions[k].userId = u}}
    IN CHOOSE t \in times : \A x \in times : t <= x

\* Contributors level on points come in ascending first-contribution time.
TieByFirstContribution ==
    (ret.done /\ args.fn \in PeriodFns)
        => LET r == ret.value IN
           \A i, j \in 1..Len(r) :
               (i < j /\ r[i].points = r[j].points)
                   => FirstContribution(args.transactions, r[i].user_id)
                         <= FirstContribution(args.transactions, r[j].user_id)

\* The orders a store may return n rows in
Reorderings(n) == {f \in [1..n -> 1..n] : \A i, j \in 1..n : i # j => f[i] # f[j]}

\* The same rows returned in whatever order give the same ranking.
SameUnderReordering ==
    (ret.done /\ args.fn \in RankFns)
        => IF args.fn = "calculate_global_ranks"
              THEN \A f \in Reorderings(Len(args.users)) :
                      calculate_global_ranks([i \in 1..Len(args.users) |-> args.users[f[i]]],
                                             args.points, args.created) = ret.value
              ELSE \A f \in Reorderings(Len(args.transactions)) :
                      calculate_period_ranks(
                          [i \in 1..Len(args.transactions) |-> args.transactions[f[i]]],
                          args.created) = ret.value

\* C17: contributors with equal points are ranked by ascending
\* first-contribution time, and the ranking of identical input is the same in
\* whatever order the store returns the rows.
C17_TieBreakDeterministic == TieByFirstContribution /\ SameUnderReordering

\* The newest leaderboard snapshot and the one before it (0: there is none)
LatestTaken == Newest(args.snapshots.taken)

OlderTaken == Newest({t \in args.snapshots.taken : t < LatestTaken})

\* C18: the rank change compares the two most recent snapshots of the
\* leaderboard; for a contributor who is in the newest and not in the older
\* of the two it is undefined, not a number.
C18_RankChangeTwoLatest ==
    (ret.done /\ args.fn = "get_user_rank_info" /\ OlderTaken # 0
              /\ args.snapshots.rank[LatestTaken] # 0)
        => /\ ret.value.found
           /\ IF args.snapshots.rank[OlderTaken] # 0
                 THEN ret.value.rank_change
                         = Some(args.snapshots.rank[OlderTaken]
                                  - args.snapshots.rank[LatestTaken])
                 ELSE ~ret.value.rank_change.some

-----------------------------------------------------------------------------
(* Properties of the webhook endpoint *)

\* C21: a request whose signature is missing, malformed or does not match
\* HMAC-SHA256(secret, rawBody) is answered with the authentication error
\* (401), and the step that answers it writes nothing: delivery rows, PR rows,
\* transactions and balances are as before.
C21_SignatureFirst ==
    [][\A p \in Procs :
          (http'[p] # http[p] /\ http'[p].verified \notin {"none", "ok"})
             => /\ http'[p].code = 401
                /\ world' = world]_vars

\* C22: every request is answered "accepted" (202) whatever process_webhook
\* did; an answer other than 202 is given only to a request whose signature
\* check failed.
C22_AlwaysAccepted ==
    [][\A p \in Procs :
          (http'[p] # http[p] /\ http'[p].pc = "idle")
             => \/ http'[p].code = 202
                \/ http'[p].verified # "ok"]_vars

-----------------------------------------------------------------------------
(* Properties of the badge evaluator *)

\* Calendar months counted from year 0
MonthNumber(k) == k.year * 12 + (k.month - 1)

\* S holds n calendar months in a row
CoversConsecutive(S, n) ==
    \E last \in S :
       \A j \in 0..(n - 1) : \E k \in S : MonthNumber(k) = MonthNumber(last) - j

\* C23: evaluate_streak(user, K) is true exactly when the months that hold a
\* merged PR of the user include K consecutive calendar months, a run over
\* the turn of the year included.
C23_StreakExact ==
    (args.fn = "evaluate_streak" /\ ret.done)
       => (ret.value <=> CoversConsecutive(args.merged, args.months))

\* A streak of four months, which here has to run over the turn of the year,
\* was found, in a set that also holds a month outside it.
C23_Witness ==
    /\ args.fn = "evaluate_streak"
    /\ ret.done
    /\ ret.value
    /\ args.months = 4
    /\ Cardinality(args.merged) > 4

-----------------------------------------------------------------------------
(* Properties of the PR record *)

\* C25: a stored PR changes its status only by a validated transition: every
\* step of a webhook handler, of transition_pr_state or of the release task
\* that changes the status of an existing PR goes along the transition table.
C25_OnlyValidatedTransitions ==
    [][\A q \in PrIds :
          (prs[q].exists /\ prs'[q].status # prs[q].status)
             => prs'[q].status \in VALID_TRANSITIONS[prs[q].status]]_vars

\* C26: a transition request whose new_state is the status the PR already has
\* is accepted and is a no-op: the status and every lifecycle timestamp of the
\* row are as before, so that repeating the request changes nothing.
C26_SameStateNoOp ==
    [][(/\ rv.pc = "rv_write"
        /\ rv'.pc = "idle"
        /\ rv'.result.status = 200
        /\ rv.to = rv.from
        /\ rv.to = prs[rv.pr].status)
          => prs'[rv.pr] = prs[rv.pr]]_vars

LifecycleFields == {"openedAt", "reviewedAt", "approvedAt", "mergedAt", "closedAt"}

\* The value of a lifecycle timestamp field of a PR row
FieldOf(row, f) ==
    CASE f = "openedAt" -> row.openedAt
      [] f = "reviewedAt" -> row.reviewedAt
      [] f = "approvedAt" -> row.approvedAt
      [] f = "mergedAt" -> row.mergedAt
      [] OTHER -> row.closedAt

\* The field each landing state is to stamp
LandingField(state) ==
    CASE state = "OPEN" -> "openedAt"
      [] state = "UNDER_REVIEW" -> "reviewedAt"
      [] state = "APPROVED" -> "approvedAt"
      [] state = "MERGED" -> "mergedAt"
      [] state = "CLOSED" -> "closedAt"
      [] OTHER -> "no field"

ScoringEvent(pl) ==
    \/ pl.action = "opened"
    \/ pl.action = "closed" /\ pl.merged

\* C30: handling a pull_request event creates a point transaction or changes a
\* balance only for an 'opened' event and for a 'closed' event with merged =
\* true; no step taken for a synchronize, reopened, closed-unmerged or unknown
\* action touches the transactions or the balances.
C30_ScoringOnlyOpenedOrMerged ==
    [][\A p \in Procs :
          (proc'[p] # proc[p] /\ proc[p].pc # "idle"
              /\ ~ScoringEvent(Payload(proc[p].delivery)))
             => /\ txs' = txs
                /\ totalPoints' = totalPoints]_vars

\* p1 was opened and then closed unmerged, and an event with an unknown action
\* was processed: the only transaction is the one for the opening.
C30_Witness ==
    /\ deliveries["D5"].processed
    /\ deliveries["D6"].processed
    /\ prs["p1"].status = "CLOSED"
    /\ Len(txs) = 1
    /\ txs[1].reason = "PR_OPENED"

-----------------------------------------------------------------------------
(* Properties of retries *)

\* C29: a delivery whose handling failed (unprocessed, failure counted) is
\* retried and eventually reaches processed = true.
C29_FailedEventuallyProcessed ==
    \A d \in ApiDeliveryIds :
       (deliveries[d].exists /\ ~deliveries[d].processed /\ deliveries[d].failureCount > 0)
          ~> deliveries[d].processed

-----------------------------------------------------------------------------
(* Properties of badge evaluation *)

MeetsCriteria(user_id, badge) ==
    CASE badge.type \in {"pr_count", "PR_COUNT"} ->
            MergedCount(user_id) >= (IF badge.hasThreshold THEN badge.threshold ELSE 0)
      [] badge.type = "first_pr" -> MergedCount(user_id) >= 1
      [] OTHER -> FALSE

\* The active badges whose criteria a user meets and which the user does not hold
Qualifying(user_id) ==
    {b \in BadgeIds : /\ Badge(b).isActive
                      /\ ~has_badge(user_id, b)
                      /\ MeetsCriteria(user_id, Badge(b))}

\* C32: evaluate_all_badges returns exactly the active badges whose criteria
\* the user meets and that the user does not hold, and the call leaves award,
\* audit, ledger and PR records as they were.
C32_ExactAndPure ==
    [][(args.fn = "evaluate_all_badges" /\ ~ret.done /\ ret'.done)
       => /\ ret'.value = Qualifying(args.user)
          /\ UNCHANGED <<world, userbadges, badgeauditlog>>]_vars

-----------------------------------------------------------------------------
(* Properties of the repository cap *)

\* The points of the user's transactions for the repository in the window
WindowTotal ==
    SumOfPoints(SelectSeq(args.ledger,
                        LAMBDA t : /\ t.userId = args.user_id
                                   /\ t.repositoryId = args.repo_id
                                   /\ args.utcnow - t.createdAt <= args.period_days))

\* The value apply_gaming_prevention returns is 0 at or above the cap and
\* min(score, cap - window total) below it.
CapRule ==
    ret.value.score = IF WindowTotal >= max_points_per_repo_per_month THEN 0
                      ELSE Min(args.score, max_points_per_repo_per_month - WindowTotal)

\* C33 as stated: apply_gaming_prevention returns 0 at or above the cap and
\* min(score, cap - window total) below it, and the window total plus the
\* returned score never exceeds the cap.
C33_TotalPlusScoreWithinCap ==
    (args.fn = "apply_gaming_prevention" /\ ret.done)
        => /\ CapRule
           /\ WindowTotal + ret.value.score <= max_points_per_repo_per_month

\* C33, amended: apply_gaming_prevention returns 0 at or above the cap and
\* min(score, cap - window total) below it, and the window total plus the
\* returned score exceeds the cap only when the window total alone already does.
C33_ScoreWithinAllowance ==
    (args.fn = "apply_gaming_prevention" /\ ret.done)
        => /\ CapRule
           /\ WindowTotal + ret.value.score
                 <= Max(max_points_per_repo_per_month, WindowTotal)

\* A call below the cap whose score is cut to the remaining allowance, with a
\* transaction on the first day of the window and one outside it.
C33_Witness ==
    /\ args.fn = "apply_gaming_prevention"
    /\ ret.done
    /\ WindowTotal < max_points_per_repo_per_month
    /\ 0 < ret.value.score
    /\ ret.value.score < args.score
    /\ \E i \in 1..Len(args.ledger) : args.ledger[i].createdAt = 70

-----------------------------------------------------------------------------
(* Properties of the reviewer-abuse checks *)

\* The number of reviews of the reviewer
ReviewerSample == LET All(g) == TRUE IN CountWhere(args.groups, All)

\* C34: for a reviewer with fewer than 10 reviews, none of the three checks
\* (rejection rate, extreme-rating rate, repeated rejection of one author)
\* reports abuse.
C34_NoVerdictBelowMinimum ==
    (args.fn = "abuse_checks" /\ ret.done /\ ReviewerSample < MinSampleSize)
        => /\ ~ret.value.spam.is_spam
           /\ ~ret.value.rating.is_manipulation
           /\ ~ret.value.targeted.is_targeted

-----------------------------------------------------------------------------
(* Properties of the ledger as a log *)

\* C35: the ledger is append-only. Every step leaves each existing point
\* transaction where it was and as it was; a step can only add rows at the end.
C35_LedgerAppendOnly ==
    [][/\ Len(txs') >= Len(txs)
       /\ \A i \in 1..Len(txs) : txs'[i] = txs[i]]_vars

\* A reversal was booked, and the transaction it reverses still stands with
\* its points.
C35_Witness ==
    \E i \in 1..Len(txs) :
        /\ txs[i].transactionType = "REVERSAL"
        /\ txs[i].original \in 1..(i - 1)
        /\ txs[txs[i].original].points = -txs[i].points
        /\ txs[i].points # 0

-----------------------------------------------------------------------------
(* Properties of snaps *)

\* Every row of the table stays where it was and as it was
RowsKept(before, after) ==
    /\ Len(after) >= Len(before)
    /\ \A i \in 1..Len(before) : after[i] = before[i]

\* C36: a step never changes or removes a RankSnapshot or LeaderboardSnapshot
\* row; a save that begins takes a snapshot time later than that of every row
\* saved before, and each row it creates carries that time.
C36_SnapshotsImmutable ==
    [][/\ RowsKept(snaps.rank, snaps'.rank)
       /\ RowsKept(snaps.board, snaps'.board)
       /\ snaps'.snapshot_at # snaps.snapshot_at
             => \A i \in 1..Len(snaps.rank) :
                   snaps.rank[i].snapshotAt < snaps'.snapshot_at
       /\ \A j \in (Len(snaps.rank) + 1)..Len(snaps'.rank) :
             snaps'.rank[j].snapshotAt = snaps.snapshot_at
       /\ \A j \in (Len(snaps.board) + 1)..Len(snaps'.board) :
             \A i \in 1..Len(snaps.board) :
                snaps.board[i].snapshotAt < snaps'.board[j].snapshotAt]_vars

\* Two snapshots of one leaderboard hold a row of the same user, the later
\* one with another rank, and the earlier row is still there.
C36_Witness ==
    \E i, j \in 1..Len(snaps.rank) :
        /\ i < j
        /\ snaps.rank[i].userId = snaps.rank[j].userId
        /\ snaps.rank[i].leaderboardType = snaps.rank[j].leaderboardType
        /\ snaps.rank[i].snapshotAt < snaps.rank[j].snapshotAt
        /\ snaps.rank[i].rank # snaps.rank[j].rank

-----------------------------------------------------------------------------
(* Properties of the event fingerprint *)

-----------------------------------------------------------------------------
(* Properties of the score freeze *)

\* freeze_user_score(user_id) has returned and no unfreeze has begun since
Frozen(user_id) ==
    /\ isBanned[user_id]
    /\ \A p \in Procs : ~(lp[p].pc = "fz_audit" /\ lp[p].user = user_id)

\* C38: while a user's score is frozen, no step creates a point transaction
\* for the user with positive points or raises the user's totalPoints.
C38_FrozenGetsNoPoints ==
    [][\A u \in Users :
          Frozen(u) => /\ totalPoints'[u] <= totalPoints[u]
                       /\ \A j \in (Len(txs) + 1)..Len(txs') :
                             txs'[j].userId = u => txs'[j].points <= 0]_vars

-----------------------------------------------------------------------------
(* Properties of redelivery *)

\* C39: whatever merged 'closed' deliveries arrive for a PR, under one
\* delivery id or several, the PR has at most one PR_MERGED transaction.
C39_OneMergeAwardPerPR ==
    \A q \in PrIds :
        Cardinality({i \in 1..Len(txs) : /\ txs[i].pullRequestId = q
                                         /\ txs[i].reason = "PR_MERGED"}) <= 1

-----------------------------------------------------------------------------
(* Properties of reversals *)

\* C40: every reversal transaction belongs to the user of the transaction it
\* reverses.
C40_ReversalSameUser ==
    \A i \in 1..Len(txs) :
        txs[i].transactionType = "REVERSAL"
            => txs[i].userId = txs[txs[i].original].userId

====
